---- MODULE Spec2Model ----
(***************************************************************************)
(* Fuel Splitter: the shared fuel-cost ledger of two drivers.              *)
(*                                                                         *)
(* The repository holds two versions of the page:                          *)
(*   - src/app/page.tsx: the ledger lives in React state and is mirrored   *)
(*     into localStorage (users Amit and Ori);                             *)
(*   - src/unnamed/part_000: the ledger lives in a Postgres store, reached *)
(*     through the server actions of src/unnamed/part_001 and the queries  *)
(*     of src/lib/database.ts (users Amit and John).                       *)
(* The variable `page` says which of the two is deployed; each action is   *)
(* a whole handler of that page, the server action it awaits and the store *)
(* calls of that server action included.                                   *)
(*                                                                         *)
(* JavaScript values that are not finite numbers are the integers NaN,     *)
(* Null and Undefined below; amounts of money are integers in units of     *)
(* 1/100000 of a shekel, so that the DECIMAL(10,4) column rounds.          *)
(***************************************************************************)
EXTENDS Integers, Sequences, FiniteSets, TLC

\* ------------------------------------------------------------------ bounds
MaxReading == 1      \* odometer readings typed by a user are 0..MaxReading
MaxIds == 2          \* history records created in one behaviour (ids, clock)
MaxFailures == 1     \* store calls that fail in one behaviour

\* ------------------------------------------------------- JavaScript values
NaN == -9001
Null == -9002
Undefined == -9003

NotNumbers == {NaN, Null, Undefined}
IsNumber(x) == x \notin NotNumbers
Nullish(x) == x \in {Null, Undefined}              \* x == null
ToNumber(x) == IF x = Null THEN 0 ELSE IF x = Undefined THEN NaN ELSE x
JsAdd(a, b) == IF ToNumber(a) = NaN \/ ToNumber(b) = NaN THEN NaN ELSE ToNumber(a) + ToNumber(b)
JsSub(a, b) == IF ToNumber(a) = NaN \/ ToNumber(b) = NaN THEN NaN ELSE ToNumber(a) - ToNumber(b)
JsMul(a, b) == IF ToNumber(a) = NaN \/ ToNumber(b) = NaN THEN NaN ELSE ToNumber(a) * ToNumber(b)
JsLt(a, b) == ToNumber(a) # NaN /\ ToNumber(b) # NaN /\ ToNumber(a) < ToNumber(b)
JsLe(a, b) == ToNumber(a) # NaN /\ ToNumber(b) # NaN /\ ToNumber(a) <= ToNumber(b)
JsGt(a, b) == JsLt(b, a)
MathMax0(x) == IF ToNumber(x) = NaN THEN NaN ELSE IF ToNumber(x) < 0 THEN 0 ELSE ToNumber(x)
Coalesce(x, d) == IF Nullish(x) THEN d ELSE x       \* x ?? d
OrNull(x) == IF x \in {0, NaN, Null, Undefined} THEN Null ELSE x   \* x || null
StrOrNull(s) == IF s \in {"undefined", "null", ""} THEN "null" ELSE s

\* -------------------------------------------------------------- identities
DbUsers == {"Amit", "John"}
LocalUsers == {"Amit", "Ori"}
KmKeys == {"Amit", "John", "Ori", "undefined"}

DbCodesToUser(code) ==
  IF code = "1337" THEN "Amit" ELSE IF code = "1234" THEN "John" ELSE "undefined"
LocalCodesToUser(code) ==
  IF code = "8237592" THEN "Amit" ELSE IF code = "1491023" THEN "Ori" ELSE "undefined"

\* OTHER of the local page (OTHER is a reserved word here)
LocalOther(u) == IF u = "Amit" THEN "Ori" ELSE IF u = "Ori" THEN "Amit" ELSE "undefined"
\* fault: the credited user is the submitter (no inversion)
CreditsSubmitter(u) == u
\* OTHER of the server actions: the same table, looked up with Amit or John
ActionsOther(u) == IF u = "Amit" THEN "Ori" ELSE IF u = "Ori" THEN "Amit" ELSE "undefined"

\* ------------------------------------------------------------------ ledger
DefaultPricePerKm == 50000         \* 0.5
NoSnapshot == <<>>
NoState == <<>>
Some(s) == <<s>>

KmByOf(amit, john, ori) ==
  [k \in KmKeys |-> IF k = "Amit" THEN amit ELSE IF k = "John" THEN john
                    ELSE IF k = "Ori" THEN ori ELSE Undefined]

LocalDefaultState ==
  [version |-> 1, pricePerKm |-> DefaultPricePerKm, startingOdometer |-> 0,
   lastOdometer |-> Null, kmBy |-> KmByOf(0, Undefined, 0), history |-> <<>>,
   lastEnteredBy |-> "null"]

NowId(clock) == clock

\* fault: the init record is built without the reading
InitEntryWithoutReading(clock, reading, sessionUser) ==
  [id |-> NowId(clock), type |-> "init", timestamp |-> clock, reading |-> Undefined,
   deltaKm |-> Undefined, attributedTo |-> "undefined", enteredBy |-> sessionUser,
   note |-> "Initial reading set", snapshot |-> NoSnapshot]

InitEntry(clock, reading, sessionUser) ==
  [id |-> NowId(clock), type |-> "init", timestamp |-> clock, reading |-> reading,
   deltaKm |-> Undefined, attributedTo |-> "undefined", enteredBy |-> sessionUser,
   note |-> "Initial reading set", snapshot |-> NoSnapshot]

MileageEntry(clock, reading, delta, creditedUser, sessionUser) ==
  [id |-> NowId(clock), type |-> "entry", timestamp |-> clock, reading |-> reading,
   deltaKm |-> delta, attributedTo |-> creditedUser, enteredBy |-> sessionUser,
   note |-> IF delta = 0 THEN "No change in km" ELSE "undefined", snapshot |-> NoSnapshot]

ResetEntry(clock, kmBy, pricePerKm, totalKm, totalAmount) ==
  [id |-> NowId(clock), type |-> "reset", timestamp |-> clock, reading |-> Undefined,
   deltaKm |-> Undefined, attributedTo |-> "undefined", enteredBy |-> "undefined",
   note |-> "Reset & share",
   snapshot |-> <<[kmBy |-> kmBy, pricePerKm |-> pricePerKm, totalKm |-> totalKm,
                   totalAmount |-> totalAmount]>>]

\* fault: the last record of any type is taken for the last entry
LastRecordOf(history) ==
  IF history = <<>> THEN <<>> ELSE <<history[Len(history)]>>

\* fault: the scan runs from the start: the oldest record of type "entry"
RECURSIVE FirstEntryOf(_)
FirstEntryOf(history) ==
  IF history = <<>> THEN <<>>
  ELSE IF Head(history).type = "entry" THEN <<Head(history)>>
  ELSE FirstEntryOf(Tail(history))

\* the last record of type "entry", scanning from the end; <<>> when there is none
RECURSIVE LastEntryOf(_)
LastEntryOf(history) ==
  IF history = <<>> THEN <<>>
  ELSE IF history[Len(history)].type = "entry" THEN <<history[Len(history)]>>
  ELSE LastEntryOf(SubSeq(history, 1, Len(history) - 1))

\* the reading of the last record that carries one, scanning from the end
RECURSIVE RestoreTo(_)
RestoreTo(history) ==
  IF history = <<>> THEN Null
  ELSE IF ~Nullish(history[Len(history)].reading) THEN history[Len(history)].reading
  ELSE RestoreTo(SubSeq(history, 1, Len(history) - 1))

\* fault: the comparison of the filter is inverted (e.id === id)
KeepOnlyId(history, id) == SelectSeq(history, LAMBDA e : e.id = id)

FilterOutId(history, id) == SelectSeq(history, LAMBDA e : e.id # id)

\* ------------------------------------------------------------------- store
\* The Postgres store: the latest row of fuel_split_state (<<>> when the table
\* is empty) and the rows of fuel_split_entries. The state table is the one of
\* the schema script with the second user's column named as database.ts names it.
InitialRow ==
  [version |-> 1, price_per_km |-> DefaultPricePerKm, starting_odometer |-> 0,
   last_odometer |-> Null, amit_km |-> 0, john_km |-> 0, last_entered_by |-> "null"]

InitialDb == [row |-> <<InitialRow>>, entries |-> <<>>]

\* the state table exactly as the schema script creates and fills it: the
\* second user's column is ori_km
ScriptRow ==
  [version |-> 1, price_per_km |-> DefaultPricePerKm, starting_odometer |-> 0,
   last_odometer |-> Null, amit_km |-> 0, ori_km |-> 0, last_entered_by |-> "null"]
ScriptDb == [row |-> <<ScriptRow>>, entries |-> <<>>]

\* the state table with no row in it
EmptyDb == [row |-> <<>>, entries |-> <<>>]

\* the statements of database.ts name the column john_km: a table without it
\* makes them fail
HasQueriedColumns(row) == "john_km" \in DOMAIN row

\* DECIMAL(10,4): four decimals kept, the fifth rounded half away from zero
Decimal4(p) == IF p = NaN THEN NaN ELSE IF p >= 0 THEN ((p + 5) \div 10) * 10
               ELSE 0 - (((0 - p) + 5) \div 10) * 10

\* JSON.stringify, then the JSONB column read back: NaN becomes null, a key
\* whose value is undefined is dropped
JsonNumber(x) == IF x = NaN THEN Null ELSE x
SnapshotData(snapshot) ==
  IF snapshot = NoSnapshot THEN NoSnapshot
  ELSE <<[kmBy |-> [k \in KmKeys |-> JsonNumber(snapshot[1].kmBy[k])],
          pricePerKm |-> JsonNumber(snapshot[1].pricePerKm),
          totalKm |-> JsonNumber(snapshot[1].totalKm),
          totalAmount |-> JsonNumber(snapshot[1].totalAmount)]>>

ByTimestamp(a, b) == a.timestamp < b.timestamp

\* a store call's outcome: ok or thrown, and the store after it
StoreOk(db) == [ok |-> TRUE, db |-> db]
StoreThrows(db) == [ok |-> FALSE, db |-> db]

GetAppState(db) ==
  IF db.row = <<>> THEN [ok |-> FALSE, state |-> NoState]
  ELSE IF ~HasQueriedColumns(db.row[1]) THEN [ok |-> FALSE, state |-> NoState]
  ELSE LET row == db.row[1]
           rows == SortSeq(db.entries, ByTimestamp)
           history == [i \in 1..Len(rows) |->
                         [id |-> rows[i].id, type |-> rows[i].type,
                          timestamp |-> rows[i].timestamp, reading |-> rows[i].reading,
                          deltaKm |-> rows[i].delta_km,
                          attributedTo |-> rows[i].attributed_to,
                          enteredBy |-> rows[i].entered_by, note |-> rows[i].note,
                          snapshot |-> rows[i].snapshot_data]]
       IN [ok |-> TRUE,
           state |-> Some([version |-> row.version, pricePerKm |-> row.price_per_km,
                           startingOdometer |-> row.starting_odometer,
                           lastOdometer |-> row.last_odometer,
                           kmBy |-> KmByOf(row.amit_km, row.john_km, Undefined),
                           history |-> history,
                           lastEnteredBy |-> row.last_entered_by])]

\* NOT NULL and INTEGER columns refuse null (undefined is sent as null) and NaN
IntegerNotNull(x) == IsNumber(x)
UpdateAppState(db, newState) ==
  IF db.row = <<>> THEN StoreOk(db)
  ELSE IF ~HasQueriedColumns(db.row[1]) THEN StoreThrows(db)
  ELSE IF ~(/\ IntegerNotNull(newState.version)
            /\ ~Nullish(newState.pricePerKm)
            /\ IntegerNotNull(newState.startingOdometer)
            /\ newState.lastOdometer # NaN
            /\ IntegerNotNull(newState.kmBy["Amit"])
            /\ IntegerNotNull(newState.kmBy["John"]))
       THEN StoreThrows(db)
  ELSE StoreOk([db EXCEPT !.row =
         <<[version |-> newState.version,
            price_per_km |-> Decimal4(newState.pricePerKm),
            starting_odometer |-> newState.startingOdometer,
            last_odometer |-> IF Nullish(newState.lastOdometer) THEN Null
                              ELSE newState.lastOdometer,
            amit_km |-> newState.kmBy["Amit"],
            john_km |-> newState.kmBy["John"],
            last_entered_by |-> StrOrNull(newState.lastEnteredBy)]>>])

\* the row the INSERT of addHistoryEntry writes for an entry
EntryRow(entry) ==
  [id |-> entry.id, type |-> entry.type, timestamp |-> entry.timestamp,
   reading |-> OrNull(entry.reading), delta_km |-> OrNull(entry.deltaKm),
   attributed_to |-> StrOrNull(entry.attributedTo),
   entered_by |-> StrOrNull(entry.enteredBy), note |-> StrOrNull(entry.note),
   snapshot_data |-> SnapshotData(entry.snapshot)]

\* fault: ON CONFLICT (id) DO UPDATE: the row of a known id is overwritten
UpsertHistoryEntry(db, entry) ==
  IF \E i \in 1..Len(db.entries) : db.entries[i].id = entry.id
  THEN StoreOk([db EXCEPT !.entries =
         [i \in 1..Len(db.entries) |->
            IF db.entries[i].id = entry.id THEN EntryRow(entry) ELSE db.entries[i]]])
  ELSE StoreOk([db EXCEPT !.entries = Append(@, EntryRow(entry))])

AddHistoryEntry(db, entry) ==
  IF \E i \in 1..Len(db.entries) : db.entries[i].id = entry.id THEN StoreOk(db)
  ELSE StoreOk([db EXCEPT !.entries = Append(@, EntryRow(entry))])

RemoveHistoryEntry(db, entryId) ==
  StoreOk([db EXCEPT !.entries = SelectSeq(@, LAMBDA r : r.id # entryId)])

\* ---------------------------------------------------------- server actions
\* `fail` names the store call that cannot complete in this invocation ("none"
\* when the store answers every call); a call that fails leaves the store as
\* it found it and throws.
FailPoints == {"none", "loadAppState", "addEntry", "removeEntry", "saveAppState"}

LoadAppState(db, fail) ==
  IF fail = "loadAppState" THEN [ok |-> FALSE, state |-> NoState] ELSE GetAppState(db)
SaveAppState(db, state, fail) ==
  IF fail = "saveAppState" THEN StoreThrows(db) ELSE UpdateAppState(db, state)
AddEntry(db, entry, fail) ==
  IF fail = "addEntry" THEN StoreThrows(db) ELSE AddHistoryEntry(db, entry)
RemoveEntry(db, entryId, fail) ==
  IF fail = "removeEntry" THEN StoreThrows(db) ELSE RemoveHistoryEntry(db, entryId)

\* what a server action hands back: the new state (and message), or an error
Returns(state, message, db) ==
  [ok |-> TRUE, error |-> "", state |-> Some(state), message |-> message, db |-> db]
Throws(error, db) ==
  [ok |-> FALSE, error |-> error, state |-> NoState, message |-> <<>>, db |-> db]
StoreError == "store"

\* fault: a reading one km below the last one passes (delta < -1)
DecreasedByMoreThanOne(delta) == JsLt(delta, 0 - 1)

\* if (delta < 0) throw: the reading is below the last one
Decreased(delta) == JsLt(delta, 0)

\* the credit of a positive delta: { ...kmBy, [creditedUser]: kmBy[creditedUser] + delta }
Credit(kmBy, creditedUser, delta) ==
  [kmBy EXCEPT ![creditedUser] = JsAdd(kmBy[creditedUser], delta)]

AddMileageEntry(sessionUser, reading, currentState, db, clock, fail) ==
  LET firstEver == currentState.lastOdometer = Null
      delta == JsSub(reading, currentState.lastOdometer)
      creditedUser == ActionsOther(sessionUser)
      newEntry == IF firstEver THEN InitEntry(clock, reading, sessionUser)
                  ELSE MileageEntry(clock, reading, delta, creditedUser, sessionUser)
      newState == IF firstEver
                  THEN [currentState EXCEPT !.startingOdometer = reading,
                                            !.lastOdometer = reading,
                                            !.lastEnteredBy = sessionUser]
                  ELSE [currentState EXCEPT
                          !.kmBy = IF delta = 0 THEN @ ELSE Credit(@, creditedUser, delta),
                          !.lastOdometer = reading,
                          !.lastEnteredBy = sessionUser]
      added == AddEntry(db, newEntry, fail)
      saved == SaveAppState(added.db, newState, fail)
  IN IF ~firstEver /\ Decreased(delta)
       THEN Throws("Mileage cannot decrease. Please check the value.", db)
     ELSE IF ~added.ok THEN Throws(StoreError, added.db)
     ELSE IF ~saved.ok THEN Throws(StoreError, saved.db)
     ELSE Returns([newState EXCEPT !.history = Append(@, newEntry)], <<>>, saved.db)

\* the reversal of the removed entry's credit, floored at 0
Uncredit(kmBy, lastEntry) ==
  IF JsGt(Coalesce(lastEntry.deltaKm, 0), 0)
     /\ lastEntry.attributedTo \notin {"undefined", "null", ""}
  THEN [kmBy EXCEPT ![lastEntry.attributedTo] =
          MathMax0(JsSub(kmBy[lastEntry.attributedTo], Coalesce(lastEntry.deltaKm, 0)))]
  ELSE kmBy

\* fault: the undo also rewinds lastEnteredBy to whoever entered the record that
\* is now the last one
UndoLastEntryRewinding(currentState, db, fail) ==
  LET found == LastEntryOf(currentState.history)
      lastEntry == found[1]
      removed == RemoveEntry(db, lastEntry.id, fail)
      newHistory == FilterOutId(currentState.history, lastEntry.id)
      newState == [currentState EXCEPT
                     !.kmBy = Uncredit(@, lastEntry),
                     !.lastOdometer = RestoreTo(newHistory),
                     !.lastEnteredBy = IF newHistory = <<>> THEN "null"
                                       ELSE newHistory[Len(newHistory)].enteredBy,
                     !.history = newHistory]
      saved == SaveAppState(removed.db, newState, fail)
  IN IF found = <<>> THEN Throws("No entry to undo", db)
     ELSE IF ~removed.ok THEN Throws(StoreError, removed.db)
     ELSE IF ~saved.ok THEN Throws(StoreError, saved.db)
     ELSE Returns(newState, <<>>, saved.db)

UndoLastEntry(currentState, db, fail) ==
  LET found == LastEntryOf(currentState.history)
      lastEntry == found[1]
      removed == RemoveEntry(db, lastEntry.id, fail)
      newHistory == FilterOutId(currentState.history, lastEntry.id)
      newState == [currentState EXCEPT !.kmBy = Uncredit(@, lastEntry),
                                       !.lastOdometer = RestoreTo(newHistory),
                                       !.history = newHistory]
      saved == SaveAppState(removed.db, newState, fail)
  IN IF found = <<>> THEN Throws("No entry to undo", db)
     ELSE IF ~removed.ok THEN Throws(StoreError, removed.db)
     ELSE IF ~saved.ok THEN Throws(StoreError, saved.db)
     ELSE Returns(newState, <<>>, saved.db)

\* the settlement message, line by line; the Odometer line only when set
MessageLine(kind, km, amount) == [kind |-> kind, km |-> km, amount |-> amount]
Message(ts, pricePerKm, kmA, amountA, kmB, amountB, totalKm, totalAmount, lastOdometer) ==
  <<MessageLine("Fuel split reset", ts, Undefined),
    MessageLine("Price per km", Undefined, pricePerKm),
    MessageLine("Totals since last reset", Undefined, Undefined),
    MessageLine("first user", kmA, amountA),
    MessageLine("second user", kmB, amountB),
    MessageLine("Total", totalKm, totalAmount)>>
  \o (IF ~Nullish(lastOdometer) THEN <<MessageLine("Odometer", lastOdometer, Undefined)>>
      ELSE <<>>)
  \o <<MessageLine("Please settle accordingly.", Undefined, Undefined)>>

ResetAndGetMessage(currentState, db, clock, fail) ==
  LET totalKm == JsAdd(currentState.kmBy["Amit"], currentState.kmBy["Ori"])
      totalAmount == JsMul(totalKm, currentState.pricePerKm)
      message == Message(clock, currentState.pricePerKm,
                         currentState.kmBy["Amit"],
                         JsMul(currentState.kmBy["Amit"], currentState.pricePerKm),
                         currentState.kmBy["Ori"],
                         JsMul(currentState.kmBy["Ori"], currentState.pricePerKm),
                         totalKm, totalAmount, currentState.lastOdometer)
      resetEntry == ResetEntry(clock, currentState.kmBy, currentState.pricePerKm,
                               totalKm, totalAmount)
      newState == [currentState EXCEPT
                     !.startingOdometer = Coalesce(currentState.lastOdometer, @),
                     !.kmBy = KmByOf(0, Undefined, 0),
                     !.history = Append(@, resetEntry)]
      added == AddEntry(db, resetEntry, fail)
      saved == SaveAppState(added.db, newState, fail)
  IN IF ~added.ok THEN Throws(StoreError, added.db)
     ELSE IF ~saved.ok THEN Throws(StoreError, saved.db)
     ELSE Returns(newState, message, saved.db)

\* fault: the supplied starting mileage is always taken
UngatedStartingOdometer(currentState, startingOdometer) == startingOdometer

\* currentState.lastOdometer == null ? startingOdometer : currentState.startingOdometer
GatedStartingOdometer(currentState, startingOdometer) ==
  IF Nullish(currentState.lastOdometer) THEN startingOdometer
  ELSE currentState.startingOdometer

\* fault: saving settings counts as a new version of the ledger
UpdateSettingsBumpingVersion(pricePerKm, startingOdometer, currentState, db, fail) ==
  LET newState == [currentState EXCEPT
                     !.pricePerKm = pricePerKm,
                     !.startingOdometer =
                        GatedStartingOdometer(currentState, startingOdometer),
                     !.version = JsAdd(@, 1)]
      saved == SaveAppState(db, newState, fail)
  IN IF JsLe(pricePerKm, 0) THEN Throws("Price per km must be greater than 0.", db)
     ELSE IF JsLt(startingOdometer, 0) THEN Throws("Starting mileage must be >= 0.", db)
     ELSE IF ~saved.ok THEN Throws(StoreError, saved.db)
     ELSE Returns(newState, <<>>, saved.db)

UpdateSettings(pricePerKm, startingOdometer, currentState, db, fail) ==
  LET newState == [currentState EXCEPT
                     !.pricePerKm = pricePerKm,
                     !.startingOdometer =
                        GatedStartingOdometer(currentState, startingOdometer)]
      saved == SaveAppState(db, newState, fail)
  IN IF JsLe(pricePerKm, 0) THEN Throws("Price per km must be greater than 0.", db)
     ELSE IF JsLt(startingOdometer, 0) THEN Throws("Starting mileage must be >= 0.", db)
     ELSE IF ~saved.ok THEN Throws(StoreError, saved.db)
     ELSE Returns(newState, <<>>, saved.db)

\* ------------------------------------------- the local page's state updaters
\* (src/app/page.tsx: each is the function handed to setState)
\* fault: the local page lets every delta through
LocalNeverDecreased(delta) == FALSE

\* if (delta < 0) { alert(...); return prev }
LocalDecreased(delta) == JsLt(delta, 0)

AddMileageUpdater(prev, sessionUser, reading, clock) ==
  LET delta == JsSub(reading, prev.lastOdometer)
      creditedUser == LocalOther(sessionUser)
  IN IF prev.lastOdometer = Null
       THEN [prev EXCEPT !.startingOdometer = reading, !.lastOdometer = reading,
                         !.lastEnteredBy = sessionUser,
                         !.history = Append(@, InitEntry(clock, reading, sessionUser))]
     ELSE IF LocalDecreased(delta) THEN prev
     ELSE [prev EXCEPT
             !.kmBy = IF delta = 0 THEN @ ELSE Credit(@, creditedUser, delta),
             !.lastOdometer = reading,
             !.lastEnteredBy = sessionUser,
             !.history = Append(@, MileageEntry(clock, reading, delta, creditedUser,
                                                sessionUser))]

UndoLastUpdater(prev, lastEntry) ==
  LET newHistory == FilterOutId(prev.history, lastEntry.id)
  IN IF \A i \in 1..Len(prev.history) : prev.history[i].id # lastEntry.id THEN prev
     ELSE [prev EXCEPT !.kmBy = Uncredit(@, lastEntry),
                       !.lastOdometer = RestoreTo(newHistory),
                       !.history = newHistory]

\* the message doResetAndShare builds from the state and its derived totals
LocalMessage(prev, ts) ==
  LET totalKm == JsAdd(prev.kmBy["Amit"], prev.kmBy["Ori"])
  IN Message(ts, prev.pricePerKm,
             prev.kmBy["Amit"], JsMul(prev.kmBy["Amit"], prev.pricePerKm),
             prev.kmBy["Ori"], JsMul(prev.kmBy["Ori"], prev.pricePerKm),
             totalKm, JsMul(totalKm, prev.pricePerKm), prev.lastOdometer)

\* fault: the reset also forgets the last reading
ResetUpdaterClearingOdometer(prev, ts, clock) ==
  LET totalKm == JsAdd(prev.kmBy["Amit"], prev.kmBy["Ori"])
      entry == [ResetEntry(clock, prev.kmBy, prev.pricePerKm, totalKm,
                           JsMul(totalKm, prev.pricePerKm)) EXCEPT !.timestamp = ts]
  IN [prev EXCEPT !.startingOdometer = Coalesce(prev.lastOdometer, @),
                  !.lastOdometer = Null,
                  !.kmBy = KmByOf(0, Undefined, 0),
                  !.history = Append(@, entry)]

ResetUpdater(prev, ts, clock) ==
  LET totalKm == JsAdd(prev.kmBy["Amit"], prev.kmBy["Ori"])
      entry == [ResetEntry(clock, prev.kmBy, prev.pricePerKm, totalKm,
                           JsMul(totalKm, prev.pricePerKm)) EXCEPT !.timestamp = ts]
  IN [prev EXCEPT !.startingOdometer = Coalesce(prev.lastOdometer, @),
                  !.kmBy = KmByOf(0, Undefined, 0),
                  !.history = Append(@, entry)]

\* fault: a new price is also written into the snapshots of past resets
SaveSettingsUpdaterRepricing(prev, newPricePerKm, newStartingOdo) ==
  [prev EXCEPT !.pricePerKm = newPricePerKm,
               !.startingOdometer = IF Nullish(prev.lastOdometer) THEN newStartingOdo
                                    ELSE @,
               !.history = [i \in 1..Len(prev.history) |->
                              IF prev.history[i].type = "reset"
                              THEN [prev.history[i] EXCEPT
                                      !.snapshot[1].pricePerKm = newPricePerKm]
                              ELSE prev.history[i]]]

SaveSettingsUpdater(prev, newPricePerKm, newStartingOdo) ==
  [prev EXCEPT !.pricePerKm = newPricePerKm,
               !.startingOdometer = IF Nullish(prev.lastOdometer) THEN newStartingOdo
                                    ELSE @]

\* JSON.stringify(state) kept under STORAGE_KEY, and JSON.parse of it
JsonEntry(e) == [e EXCEPT !.reading = JsonNumber(@), !.deltaKm = JsonNumber(@),
                          !.snapshot = SnapshotData(@)]
JsonState(s) ==
  [s EXCEPT !.pricePerKm = JsonNumber(@), !.startingOdometer = JsonNumber(@),
            !.lastOdometer = JsonNumber(@),
            !.kmBy = [k \in KmKeys |-> JsonNumber(s.kmBy[k])],
            !.history = [i \in 1..Len(s.history) |-> JsonEntry(s.history[i])]]

\* ------------------------------------------------------------------- state
VARIABLES
  page,         \* "local" (src/app/page.tsx) or "db" (src/unnamed/part_000)
  db,           \* the Postgres store of the db page
  clock,        \* Date.now(): one tick per record created
  sessionUser,  \* per client: the React state sessionUser ("null" when logged out)
  state,        \* per client: the React state `state` (NoState when null)
  storage,      \* per client: localStorage (SESSION_KEY and STORAGE_KEY)
  result,       \* per client: how the last handler ended (what the user saw)
  failures,     \* store calls that have failed so far
  actionLoading,\* per client: the React state actionLoading of the db page
  inFlight      \* per client: server actions called and not yet settled, in
                \* the order they were called

vars == <<page, db, clock, sessionUser, state, storage, result, failures,
          actionLoading, inFlight>>

Clients == {"c1", "c2"}
Pages == {"local", "db"}

Outcome(op, outcome, msg) == [op |-> op, outcome |-> outcome, msg |-> msg]

\* useState(false) for actionLoading, and no server action called yet
NothingInFlight ==
  /\ actionLoading = [c \in Clients |-> FALSE]
  /\ inFlight = [c \in Clients |-> <<>>]

Init ==
  /\ page \in Pages
  /\ db = InitialDb
  /\ clock = 0
  /\ sessionUser = [c \in Clients |-> "null"]
  /\ state = [c \in Clients |-> IF page = "local" THEN Some(LocalDefaultState) ELSE NoState]
  /\ storage = [c \in Clients |->
                  [session |-> "null",
                   ledger |-> IF page = "local" THEN Some(JsonState(LocalDefaultState))
                              ELSE NoState]]
  /\ result = [c \in Clients |-> Outcome("none", "none", "")]
  /\ failures = 0
  /\ NothingInFlight

\* inputs a user can type that the page lets through to the ledger: readings,
\* a price per km (0.2) other than the default, a starting mileage, the codes
ReadingInputs == 0..MaxReading
PriceInputs == {20000}
OdoInputs == {1}
DbCodes == {"1337", "1234"}
LocalCodes == {"8237592", "1491023"}
\* what Number(mileageValue) can be besides a reading: a negative number, NaN
AnyReadingInputs == ReadingInputs \cup {0 - 1, NaN}
\* what Number(priceInput) and Number(startOdoInput) can hand to saveSettings:
\* 0.2, 0.12345, 0 (also of an empty field), -0.2, NaN (of a text that is no
\* number)
AnyPriceInputs == {20000, 12345, 0, 0 - 20000, NaN}
AnyOdoInputs == {1, 0, 0 - 1, NaN}

\* ---------------------------------------------------- the db page's handlers
LoggedIn(c) == sessionUser[c] # "null" /\ state[c] # NoState
InvalidReading(reading) == ~IsNumber(reading) \/ reading < 0

\* the store call named by `fail` did not complete in this step: one more of
\* the failures of the behaviour (a call the store refuses for what it is given
\* is no failure of the store)
StoreFailed(failed) ==
  /\ failed => failures < MaxFailures
  /\ failures' = IF failed THEN failures + 1 ELSE failures

\* what a handler does with the server action's answer r: setState on return,
\* alert on throw
Settle(c, op, r, fail) ==
  /\ db' = r.db
  /\ state' = IF r.ok THEN [state EXCEPT ![c] = r.state] ELSE state
  /\ result' = [result EXCEPT ![c] =
                  Outcome(op, IF r.ok THEN "ok" ELSE "error", r.error)]
  /\ StoreFailed(fail # "none" /\ ~r.ok /\ r.error = StoreError)

HandleLoginWith(c, code, fail) ==
  /\ page = "db"
  /\ sessionUser[c] = "null"
  /\ LET user == DbCodesToUser(code)
         loaded == LoadAppState(db, fail)
     IN IF user = "undefined"
        THEN /\ result' = [result EXCEPT ![c] =
                             Outcome("handleLogin", "error", "Invalid code")]
             /\ UNCHANGED <<sessionUser, state, storage, failures>>
        ELSE /\ sessionUser' = [sessionUser EXCEPT ![c] = user]
             /\ storage' = [storage EXCEPT ![c].session = user]
             /\ state' = IF loaded.ok THEN [state EXCEPT ![c] = loaded.state] ELSE state
             /\ result' = [result EXCEPT ![c] =
                             Outcome("handleLogin", IF loaded.ok THEN "ok" ELSE "error",
                                     IF loaded.ok THEN "" ELSE StoreError)]
             /\ StoreFailed(fail # "none" /\ ~loaded.ok)
  /\ UNCHANGED <<page, actionLoading, inFlight, db, clock>>

HandleLogin(c) ==
  \E code \in DbCodes, fail \in {"none", "loadAppState"} : HandleLoginWith(c, code, fail)

Logout(c) ==
  /\ page = "db"
  /\ LoggedIn(c)
  /\ sessionUser' = [sessionUser EXCEPT ![c] = "null"]
  /\ state' = [state EXCEPT ![c] = NoState]
  /\ storage' = [storage EXCEPT ![c].session = "null"]
  /\ result' = [result EXCEPT ![c] = Outcome("logout", "ok", "")]
  /\ UNCHANGED <<page, actionLoading, inFlight, db, clock, failures>>

\* the browser reloads the page: the session is restored from localStorage and,
\* when there is one, the ledger is loaded from the store
ReloadPageWith(c, fail) ==
  /\ page = "db"
  /\ storage[c].session # "null"
  /\ LET loaded == LoadAppState(db, fail)
     IN /\ sessionUser' = [sessionUser EXCEPT ![c] = storage[c].session]
        /\ state' = [state EXCEPT ![c] = IF loaded.ok THEN loaded.state ELSE NoState]
        /\ result' = [result EXCEPT ![c] =
                        Outcome("loadState", IF loaded.ok THEN "ok" ELSE "error",
                                IF loaded.ok THEN "" ELSE StoreError)]
        /\ StoreFailed(fail # "none" /\ ~loaded.ok)
  /\ UNCHANGED <<page, actionLoading, inFlight, db, clock, storage>>

ReloadPage(c) == \E fail \in {"none", "loadAppState"} : ReloadPageWith(c, fail)

AddMileageWith(c, reading, fail) ==
  /\ page = "db"
  /\ LoggedIn(c)
  /\ IF InvalidReading(reading)
     THEN /\ result' = [result EXCEPT ![c] =
                          Outcome("addMileage", "error", "Please enter a valid mileage (km).")]
          /\ UNCHANGED <<db, clock, state, failures>>
     ELSE /\ clock < MaxIds
          /\ LET r == AddMileageEntry(sessionUser[c], reading, state[c][1], db, clock + 1, fail)
             IN /\ Settle(c, "addMileage", r, fail)
                /\ clock' = IF r.ok \/ r.db # db THEN clock + 1 ELSE clock
  /\ UNCHANGED <<page, actionLoading, inFlight, sessionUser, storage>>

AddMileage(c) ==
  \E reading \in ReadingInputs, fail \in {"none", "addEntry", "saveAppState"} :
    AddMileageWith(c, reading, fail)

UndoLastWith(c, fail) ==
  /\ page = "db"
  /\ LoggedIn(c)
  /\ IF LastEntryOf(state[c][1].history) = <<>>
     THEN /\ result' = [result EXCEPT ![c] = Outcome("undoLast", "none", "")]
          /\ UNCHANGED <<db, state, failures>>
     ELSE Settle(c, "undoLast", UndoLastEntry(state[c][1], db, fail), fail)
  /\ UNCHANGED <<page, actionLoading, inFlight, clock, sessionUser, storage>>

UndoLast(c) == \E fail \in {"none", "removeEntry", "saveAppState"} : UndoLastWith(c, fail)

\* the server action undoLastEntry called with the client's state where the page
\* would not call it: by a caller that does not make the page's lastEntry check
\* (a server action is an endpoint of its own)
InvokeUndoLastEntry(c) ==
  /\ page = "db"
  /\ LoggedIn(c)
  /\ LastEntryOf(state[c][1].history) = <<>>
  /\ \E fail \in {"none", "removeEntry", "saveAppState"} :
       Settle(c, "undoLastEntry", UndoLastEntry(state[c][1], db, fail), fail)
  /\ UNCHANGED <<page, actionLoading, inFlight, clock, sessionUser, storage>>

DoResetAndShareWith(c, fail) ==
  /\ page = "db"
  /\ LoggedIn(c)
  /\ clock < MaxIds
  /\ LET r == ResetAndGetMessage(state[c][1], db, clock + 1, fail)
     IN /\ Settle(c, "doResetAndShare", r, fail)
        /\ clock' = IF r.ok \/ r.db # db THEN clock + 1 ELSE clock
  /\ UNCHANGED <<page, actionLoading, inFlight, sessionUser, storage>>

DoResetAndShare(c) ==
  \E fail \in {"none", "addEntry", "saveAppState"} : DoResetAndShareWith(c, fail)

SaveSettingsWith(c, newPricePerKm, newStartingOdo, fail) ==
  /\ page = "db"
  /\ LoggedIn(c)
  /\ Settle(c, "saveSettings",
            UpdateSettings(newPricePerKm, newStartingOdo, state[c][1], db, fail), fail)
  /\ UNCHANGED <<page, actionLoading, inFlight, clock, sessionUser, storage>>

SaveSettings(c) ==
  \E newPricePerKm \in PriceInputs, newStartingOdo \in OdoInputs,
     fail \in {"none", "saveAppState"} :
    SaveSettingsWith(c, newPricePerKm, newStartingOdo, fail)

\* the Save button with whatever the two fields convert to
SaveAnySettings(c) ==
  \E newPricePerKm \in AnyPriceInputs, newStartingOdo \in AnyOdoInputs,
     fail \in {"none", "saveAppState"} :
    SaveSettingsWith(c, newPricePerKm, newStartingOdo, fail)

\* ------------------------------------------------- the local page's handlers
\* the effect that mirrors every new state into localStorage runs with it
SetLocalState(c, op, new, outcome, msg) ==
  /\ state' = [state EXCEPT ![c] = Some(new)]
  /\ storage' = [storage EXCEPT ![c].ledger = Some(JsonState(new))]
  /\ result' = [result EXCEPT ![c] = Outcome(op, outcome, msg)]

LocalHandleLogin(c) ==
  /\ page = "local"
  /\ sessionUser[c] = "null"
  /\ \E code \in LocalCodes :
       LET user == LocalCodesToUser(code)
       IN IF user = "undefined"
          THEN /\ result' = [result EXCEPT ![c] =
                               Outcome("handleLogin", "error", "Invalid code")]
               /\ UNCHANGED <<sessionUser, storage>>
          ELSE /\ sessionUser' = [sessionUser EXCEPT ![c] = user]
               /\ storage' = [storage EXCEPT ![c].session = user]
               /\ result' = [result EXCEPT ![c] =
                               Outcome("handleLogin", "ok", "")]
  /\ UNCHANGED <<page, actionLoading, inFlight, db, clock, state, failures>>

LocalLogout(c) ==
  /\ page = "local"
  /\ sessionUser[c] # "null"
  /\ sessionUser' = [sessionUser EXCEPT ![c] = "null"]
  /\ storage' = [storage EXCEPT ![c].session = "null"]
  /\ result' = [result EXCEPT ![c] = Outcome("logout", "ok", "")]
  /\ UNCHANGED <<page, actionLoading, inFlight, db, clock, state, failures>>

\* the browser reloads the page: session and ledger come back from localStorage
LocalReloadPage(c) ==
  /\ page = "local"
  /\ sessionUser' = [sessionUser EXCEPT ![c] = storage[c].session]
  /\ state' = [state EXCEPT ![c] = storage[c].ledger]
  /\ result' = [result EXCEPT ![c] =
                  Outcome("loadState", "ok", "")]
  /\ UNCHANGED <<page, actionLoading, inFlight, db, clock, storage, failures>>

LocalAddMileageWith(c, reading) ==
  /\ page = "local"
  /\ sessionUser[c] # "null"
  /\ LET prev == state[c][1]
         new == AddMileageUpdater(prev, sessionUser[c], reading, clock + 1)
     IN IF InvalidReading(reading)
        THEN /\ result' = [result EXCEPT ![c] =
                             Outcome("addMileage", "error",
                                     "Please enter a valid mileage (km).")]
             /\ UNCHANGED <<clock, state, storage>>
        ELSE IF prev.lastOdometer # Null /\ LocalDecreased(JsSub(reading, prev.lastOdometer))
        THEN /\ SetLocalState(c, "addMileage", new, "error",
                              "Mileage cannot decrease. Please check the value.")
             /\ UNCHANGED clock
        ELSE /\ clock < MaxIds
             /\ SetLocalState(c, "addMileage", new, "ok", "")
             /\ clock' = clock + 1
  /\ UNCHANGED <<page, actionLoading, inFlight, db, sessionUser, failures>>

LocalAddMileage(c) == \E reading \in ReadingInputs : LocalAddMileageWith(c, reading)

LocalUndoLast(c) ==
  /\ page = "local"
  /\ sessionUser[c] # "null"
  /\ LET lastEntry == LastEntryOf(state[c][1].history)
     IN IF lastEntry = <<>>
        THEN /\ result' = [result EXCEPT ![c] =
                             Outcome("undoLast", "none", "")]
             /\ UNCHANGED <<state, storage>>
        ELSE SetLocalState(c, "undoLast", UndoLastUpdater(state[c][1], lastEntry[1]),
                           "ok", "")
  /\ UNCHANGED <<page, actionLoading, inFlight, db, clock, sessionUser, failures>>

LocalDoResetAndShare(c) ==
  /\ page = "local"
  /\ sessionUser[c] # "null"
  /\ clock < MaxIds
  /\ SetLocalState(c, "doResetAndShare", ResetUpdater(state[c][1], clock + 1, clock + 1),
                   "ok", "")
  /\ clock' = clock + 1
  /\ UNCHANGED <<page, actionLoading, inFlight, db, sessionUser, failures>>

LocalSaveSettingsWith(c, newPricePerKm, newStartingOdo) ==
  /\ page = "local"
  /\ sessionUser[c] # "null"
  /\ IF JsLe(newPricePerKm, 0)
     THEN /\ result' = [result EXCEPT ![c] =
                          Outcome("saveSettings", "error",
                                  "Price per km must be greater than 0.")]
          /\ UNCHANGED <<state, storage>>
     ELSE IF JsLt(newStartingOdo, 0)
     THEN /\ result' = [result EXCEPT ![c] =
                          Outcome("saveSettings", "error", "Starting mileage must be >= 0.")]
          /\ UNCHANGED <<state, storage>>
     ELSE SetLocalState(c, "saveSettings",
                        SaveSettingsUpdater(state[c][1], newPricePerKm, newStartingOdo),
                        "ok", "")
  /\ UNCHANGED <<page, actionLoading, inFlight, db, clock, sessionUser, failures>>

LocalSaveSettings(c) ==
  \E newPricePerKm \in PriceInputs, newStartingOdo \in OdoInputs :
    LocalSaveSettingsWith(c, newPricePerKm, newStartingOdo)

LocalSaveAnySettings(c) ==
  \E newPricePerKm \in AnyPriceInputs, newStartingOdo \in AnyOdoInputs :
    LocalSaveSettingsWith(c, newPricePerKm, newStartingOdo)

\* ----------------------------------------------------------- specifications
ClientStep(c) ==
  \/ HandleLogin(c)
  \/ Logout(c)
  \/ ReloadPage(c)
  \/ AddMileage(c)
  \/ UndoLast(c)
  \/ InvokeUndoLastEntry(c)
  \/ DoResetAndShare(c)
  \/ SaveSettings(c)
  \/ LocalHandleLogin(c)
  \/ LocalLogout(c)
  \/ LocalReloadPage(c)
  \/ LocalAddMileage(c)
  \/ LocalUndoLast(c)
  \/ LocalDoResetAndShare(c)
  \/ LocalSaveSettings(c)

\* a single client: one browser, one writer
Next == ClientStep("c1")

\* The server actions are exported endpoints: a caller that holds no session
\* (it never typed a code) can invoke them with arguments of its own.
NoSession(c) == page = "db" /\ sessionUser[c] = "null" /\ storage[c].session = "null"

\* the entries a caller can hand to addEntry: any id, known to the store or not
EntryInputs ==
  {MileageEntry(k, r, r, u, "Amit") : k \in 1..MaxIds, r \in ReadingInputs, u \in {"John"}}

InvokeLoadAppState(c) ==
  /\ NoSession(c)
  /\ LET loaded == LoadAppState(db, "none")
     IN /\ state' = [state EXCEPT ![c] = loaded.state]
        /\ result' = [result EXCEPT ![c] =
                        Outcome("loadAppState", IF loaded.ok THEN "ok" ELSE "error", "")]
  /\ UNCHANGED <<page, actionLoading, inFlight, db, clock, sessionUser, storage, failures>>

InvokeAddEntry(c, entry) ==
  /\ NoSession(c)
  /\ LET r == AddEntry(db, entry, "none")
     IN /\ db' = r.db
        /\ result' = [result EXCEPT ![c] =
                        Outcome("addEntry", IF r.ok THEN "ok" ELSE "error", "")]
  /\ UNCHANGED <<page, actionLoading, inFlight, clock, sessionUser, state, storage, failures>>

InvokeAddMileageEntry(c, user, reading) ==
  /\ NoSession(c)
  /\ state[c] # NoState
  /\ clock < MaxIds
  /\ LET r == AddMileageEntry(user, reading, state[c][1], db, clock + 1, "none")
     IN /\ Settle(c, "addMileageEntry", r, "none")
        /\ clock' = IF r.ok \/ r.db # db THEN clock + 1 ELSE clock
  /\ UNCHANGED <<page, actionLoading, inFlight, sessionUser, storage>>

\* the db page used by one client while another caller invokes the endpoints
EndpointInit == Init /\ page = "db"
EndpointNext ==
  \/ \E code \in DbCodes : HandleLoginWith("c1", code, "none")
  \/ \E reading \in ReadingInputs : AddMileageWith("c1", reading, "none")
  \/ InvokeLoadAppState("c2")
  \/ \E user \in DbUsers, reading \in ReadingInputs :
        InvokeAddMileageEntry("c2", user, reading)
EndpointSpec == EndpointInit /\ [][EndpointNext]_vars

\* the db page open in two browsers: each client works on the copy of the state
\* it loaded or was handed by its own last operation
TwoClientStep(c) ==
  \/ \E code \in DbCodes : HandleLoginWith(c, code, "none")
  \/ ReloadPageWith(c, "none")
  \/ \E reading \in ReadingInputs : AddMileageWith(c, reading, "none")
  \/ UndoLastWith(c, "none")
TwoClientNext == \E c \in Clients : TwoClientStep(c)
TwoClientSpec == EndpointInit /\ [][TwoClientNext]_vars

\* both pages with whatever the mileage field converts to, and addMileageEntry
\* invoked with such a value
ReadingNext ==
  \/ \E code \in DbCodes : HandleLoginWith("c1", code, "none")
  \/ \E reading \in AnyReadingInputs : AddMileageWith("c1", reading, "none")
  \/ InvokeLoadAppState("c2")
  \/ \E user \in DbUsers, reading \in AnyReadingInputs :
        InvokeAddMileageEntry("c2", user, reading)
  \/ LocalHandleLogin("c1")
  \/ \E reading \in AnyReadingInputs : LocalAddMileageWith("c1", reading)
ReadingSpec == Init /\ [][ReadingNext]_vars

\* the local page opened in a browser whose localStorage already holds a ledger:
\* the one left by a first reading of 0 entered by Amit, or the default one
SavedLedger == AddMileageUpdater(LocalDefaultState, "Amit", 0, 0)
SavedLedgers == {SavedLedger, LocalDefaultState}
ReturningInit ==
  /\ page = "local"
  /\ db = InitialDb
  /\ clock = 0
  /\ sessionUser = [c \in Clients |-> "null"]
  /\ \E saved \in SavedLedgers :
       /\ state = [c \in Clients |-> Some(JsonState(saved))]
       /\ storage = [c \in Clients |->
                       [session |-> "null", ledger |-> Some(JsonState(saved))]]
  /\ result = [c \in Clients |-> Outcome("none", "none", "")]
  /\ failures = 0
  /\ NothingInFlight
ReturningNext ==
  \/ LocalHandleLogin("c1") \/ LocalLogout("c1") \/ LocalReloadPage("c1")
  \/ LocalAddMileage("c1") \/ LocalUndoLast("c1") \/ LocalDoResetAndShare("c1")
  \/ LocalSaveSettings("c1")
ReturningSpec == ReturningInit /\ [][ReturningNext]_vars

\* either page opened on a ledger that already holds its first reading, 0 entered
\* by Amit: in localStorage, or in the database; readings are recorded and undone
SavedDb ==
  AddMileageEntry("Amit", 0, GetAppState(InitialDb).state[1], InitialDb, 0, "none").db
UndoInit ==
  /\ page \in Pages
  /\ db = IF page = "db" THEN SavedDb ELSE InitialDb
  /\ clock = 0
  /\ sessionUser = [c \in Clients |-> "null"]
  /\ state = [c \in Clients |->
                IF page = "local" THEN Some(JsonState(SavedLedger)) ELSE NoState]
  /\ storage = [c \in Clients |->
                  [session |-> "null",
                   ledger |-> IF page = "local" THEN Some(JsonState(SavedLedger))
                              ELSE NoState]]
  /\ result = [c \in Clients |-> Outcome("none", "none", "")]
  /\ failures = 0
  /\ NothingInFlight
UndoNext ==
  \/ HandleLogin("c1") \/ Logout("c1") \/ AddMileage("c1") \/ UndoLast("c1")
  \/ DoResetAndShare("c1")
  \/ LocalHandleLogin("c1") \/ LocalLogout("c1") \/ LocalAddMileage("c1")
  \/ LocalUndoLast("c1") \/ LocalDoResetAndShare("c1")
UndoSpec == UndoInit /\ [][UndoNext]_vars

\* the history table written by the page's client and by direct calls of addEntry
HistoryNext ==
  \/ \E code \in DbCodes : HandleLoginWith("c1", code, "none")
  \/ \E reading \in ReadingInputs : AddMileageWith("c1", reading, "none")
  \/ \E entry \in EntryInputs : InvokeAddEntry("c2", entry)
HistorySpec == EndpointInit /\ [][HistoryNext]_vars

Spec == Init /\ [][Next]_vars

\* the db page over each store it can be deployed on: the table of the schema
\* script, the table with the column database.ts names, a table with no row
Stores == {ScriptDb, InitialDb, EmptyDb}
SchemaInit ==
  /\ page = "db"
  /\ db \in Stores
  /\ clock = 0
  /\ sessionUser = [c \in Clients |-> "null"]
  /\ state = [c \in Clients |-> NoState]
  /\ storage = [c \in Clients |-> [session |-> "null", ledger |-> NoState]]
  /\ result = [c \in Clients |-> Outcome("none", "none", "")]
  /\ failures = 0
  /\ NothingInFlight
SchemaStep(c) ==
  \/ HandleLogin(c) \/ Logout(c) \/ ReloadPage(c) \/ AddMileage(c)
  \/ UndoLast(c) \/ DoResetAndShare(c) \/ SaveSettings(c)
SchemaNext == SchemaStep("c1")
SchemaSpec == SchemaInit /\ [][SchemaNext]_vars

\* the settings sheet with unrestricted field contents: logging in, reloading,
\* recording readings and saving settings
SettingsStep(c) ==
  \/ HandleLogin(c)
  \/ ReloadPage(c)
  \/ AddMileage(c)
  \/ SaveAnySettings(c)
  \/ LocalHandleLogin(c)
  \/ LocalReloadPage(c)
  \/ LocalAddMileage(c)
  \/ LocalSaveAnySettings(c)

SettingsNext == SettingsStep("c1")

SettingsSpec == Init /\ [][SettingsNext]_vars

\* ------------------------------- the db page's handlers, call and settlement
\* A handler of the db page runs in two steps: up to its await (the button is
\* pressed, actionLoading is set, the server action is called with the state
\* the client holds), and from the await on (the server action has run; setState
\* or alert; finally actionLoading is cleared).
RemoveAt(seq, i) == SubSeq(seq, 1, i - 1) \o SubSeq(seq, i + 1, Len(seq))

Request(op, user, reading, pricePerKm, startingOdometer, currentState) ==
  [op |-> op, user |-> user, reading |-> reading, pricePerKm |-> pricePerKm,
   startingOdometer |-> startingOdometer, currentState |-> currentState]

\* fault: the buttons stay enabled while an action is running
AlwaysEnabled(c) == TRUE

\* disabled={actionLoading} on the main screen, which shows with a session and a state
ButtonsEnabled(c) == LoggedIn(c) /\ ~actionLoading[c]

Call(c, request) ==
  /\ page = "db"
  /\ actionLoading' = [actionLoading EXCEPT ![c] = TRUE]
  /\ inFlight' = [inFlight EXCEPT ![c] = Append(@, request)]
  /\ UNCHANGED <<page, db, clock, sessionUser, state, storage, result, failures>>

StartAddMileage(c) ==
  \E reading \in ReadingInputs :
    /\ ButtonsEnabled(c)
    /\ LoggedIn(c)
    /\ ~InvalidReading(reading)
    /\ clock < MaxIds
    /\ Call(c, Request("addMileage", sessionUser[c], reading, Null, Null, state[c][1]))

StartUndoLast(c) ==
  /\ ButtonsEnabled(c)
  /\ state[c] # NoState
  /\ LastEntryOf(state[c][1].history) # <<>>
  /\ Call(c, Request("undoLast", "null", Null, Null, Null, state[c][1]))

StartDoResetAndShare(c) ==
  /\ ButtonsEnabled(c)
  /\ state[c] # NoState
  /\ clock < MaxIds
  /\ Call(c, Request("doResetAndShare", "null", Null, Null, Null, state[c][1]))

StartSaveSettings(c) ==
  \E newPricePerKm \in PriceInputs, newStartingOdo \in OdoInputs :
    /\ ButtonsEnabled(c)
    /\ state[c] # NoState
    /\ Call(c, Request("saveSettings", "null", Null, newPricePerKm, newStartingOdo,
                       state[c][1]))

\* the server action of a request, run on the store as it is when it runs
ServerAction(request, store, now, fail) ==
  CASE request.op = "addMileage" ->
         AddMileageEntry(request.user, request.reading, request.currentState,
                         store, now, fail)
    [] request.op = "undoLast" -> UndoLastEntry(request.currentState, store, fail)
    [] request.op = "doResetAndShare" ->
         ResetAndGetMessage(request.currentState, store, now, fail)
    [] request.op = "saveSettings" ->
         UpdateSettings(request.pricePerKm, request.startingOdometer,
                        request.currentState, store, fail)

\* the i-th call in flight settles: try { setState(await ...) } catch { alert }
\* finally { setActionLoading(false) }
SettleAction(c, i, fail) ==
  /\ page = "db"
  /\ i \in 1..Len(inFlight[c])
  /\ \E r \in {ServerAction(inFlight[c][i], db, clock + 1, fail)} :
       /\ Settle(c, inFlight[c][i].op, r, fail)
       /\ clock' = IF (r.ok \/ r.db # db)
                      /\ inFlight[c][i].op \in {"addMileage", "doResetAndShare"}
                   THEN clock + 1 ELSE clock
  /\ actionLoading' = [actionLoading EXCEPT ![c] = FALSE]
  /\ inFlight' = [inFlight EXCEPT ![c] = RemoveAt(@, i)]
  /\ UNCHANGED <<page, sessionUser, storage>>

\* a call in flight settles, the store answering: the action returns, or throws
\* what it refuses (a reading below the last one, a row the store rejects)
Settles(c) ==
  \E i \in 1..MaxIds + 1 : SettleAction(c, i, "none")

\* the db page with its handlers in two steps; the Logout button is not
\* disabled while an action is running
AsyncInit == Init /\ page = "db"
AsyncNext ==
  \/ \E code \in DbCodes : HandleLoginWith("c1", code, "none")
  \/ Logout("c1")
  \/ StartAddMileage("c1")
  \/ StartUndoLast("c1")
  \/ StartDoResetAndShare("c1")
  \/ StartSaveSettings("c1")
  \/ Settles("c1")
AsyncSpec == AsyncInit /\ [][AsyncNext]_vars

\* the same page used by Amit alone, every awaited server action settling: it
\* returns or it throws
AmitNext ==
  \/ HandleLoginWith("c1", "1337", "none")
  \/ Logout("c1")
  \/ StartAddMileage("c1")
  \/ StartUndoLast("c1")
  \/ StartDoResetAndShare("c1")
  \/ StartSaveSettings("c1")
  \/ Settles("c1")
AsyncFairSpec == AsyncInit /\ [][AmitNext]_vars /\ WF_vars(Settles("c1"))

\* ------------------------------------------------------------------ claims
Ledger(c) == state[c][1]
Last(seq) == seq[Len(seq)]
DeploymentUsers == IF page = "db" THEN DbUsers ELSE LocalUsers
OtherIdentity(u) == CHOOSE v \in DeploymentUsers : v # u
KmTotal(s) == JsAdd(s.kmBy[CHOOSE u \in DeploymentUsers : TRUE],
                    s.kmBy[OtherIdentity(CHOOSE u \in DeploymentUsers : TRUE)])
NumberOr0(x) == IF IsNumber(x) THEN x ELSE 0

\* the sum of deltaKm over the entry records after the latest reset record
RECURSIVE DeltaSinceReset(_)
DeltaSinceReset(history) ==
  IF history = <<>> \/ Last(history).type = "reset" THEN 0
  ELSE (IF Last(history).type = "entry" THEN NumberOr0(Last(history).deltaKm) ELSE 0)
       + DeltaSinceReset(SubSeq(history, 1, Len(history) - 1))

NoEntryRecord(history) == \A i \in 1..Len(history) : history[i].type # "entry"
Returned(c, op) == result'[c] = Outcome(op, "ok", "")

\* C1: in every reachable state the kmBy of the two users sum to the deltaKm of
\* the entry records that follow the latest reset record of history.
C1_KmBySumIsDeltaSum ==
  \A c \in Clients :
    state[c] # NoState => KmTotal(Ledger(c)) = DeltaSinceReset(Ledger(c).history)

\* C2: on the db page a successful addMileageEntry with a reading above
\* lastOdometer appends an entry record entered by the submitter and attributed
\* to the other identity of the pair, and adds the delta to exactly that other
\* identity's kmBy.
C2_CreditsTheOtherIdentity ==
  [][\A c \in Clients :
       (/\ AddMileage(c)
        /\ Returned(c, "addMileage")
        /\ Ledger(c).lastOdometer # Null
        /\ Ledger(c).lastOdometer' > Ledger(c).lastOdometer)
       => LET u == sessionUser[c]
              o == OtherIdentity(u)
              e == Last(Ledger(c).history')
          IN /\ e.type = "entry"
             /\ e.enteredBy = u
             /\ e.attributedTo = o
             /\ Ledger(c).kmBy'[o] = Ledger(c).kmBy[o] + e.deltaKm
             /\ Ledger(c).kmBy'[u] = Ledger(c).kmBy[u]]_vars

\* C3: a successful recordReading (addMileageEntry behind the db page, addMileage
\* of the local page) leaves the kmBy of the submitting user as it was, on the
\* init path and for every delta >= 0.
C3_SubmitterKmUnchanged ==
  [][\A c \in Clients :
       ((AddMileage(c) \/ LocalAddMileage(c)) /\ Returned(c, "addMileage"))
       => Ledger(c).kmBy'[sessionUser[c]] = Ledger(c).kmBy[sessionUser[c]]]_vars

\* a positive delta has just been recorded on the db page
C3_Witness ==
  /\ page = "db"
  /\ result["c1"] = Outcome("addMileage", "ok", "")
  /\ Last(Ledger("c1").history).type = "entry"
  /\ Last(Ledger("c1").history).deltaKm > 0
  /\ Last(Ledger("c1").history).enteredBy = sessionUser["c1"]

\* C4: a reading below a set lastOdometer always fails with an error and leaves
\* the client's state and the store (history and aggregate) as they were.
C4_LowerReadingRejected ==
  [][\A c \in Clients : \A reading \in ReadingInputs :
       (/\ state[c] # NoState
        /\ Ledger(c).lastOdometer # Null
        /\ reading < Ledger(c).lastOdometer
        /\ \/ \E fail \in FailPoints : AddMileageWith(c, reading, fail)
           \/ LocalAddMileageWith(c, reading))
       => /\ result'[c].op = "addMileage"
          /\ result'[c].outcome = "error"
          /\ UNCHANGED <<db, state, storage, clock>>]_vars

\* a lower reading has just been refused by the server action
C4_Witness ==
  /\ page = "db"
  /\ result["c1"] =
       Outcome("addMileage", "error", "Mileage cannot decrease. Please check the value.")
  /\ Ledger("c1").lastOdometer > 0

\* C5: no step other than an undo lowers or unsets a set lastOdometer: not a
\* recorded reading, a reset, a settings change, nor a reload of the state.
C5_LastOdometerNeverDecreases ==
  [][\A c \in Clients :
       (/\ state[c] # NoState
        /\ state'[c] # NoState
        /\ Ledger(c).lastOdometer # Null
        /\ ~(UndoLast(c) \/ InvokeUndoLastEntry(c) \/ LocalUndoLast(c)))
       => /\ IsNumber(Ledger(c).lastOdometer')
          /\ Ledger(c).lastOdometer' >= Ledger(c).lastOdometer]_vars

\* a reading above the last one has just been accepted
C5_Witness ==
  /\ result["c1"] = Outcome("addMileage", "ok", "")
  /\ Len(Ledger("c1").history) >= 2
  /\ Last(Ledger("c1").history).type = "entry"
  /\ Last(Ledger("c1").history).deltaKm > 0
  /\ Ledger("c1").lastOdometer = Last(Ledger("c1").history).reading

\* C6: from every reachable state of the db page's client, undoLastEntry applied
\* to what a successful addMileageEntry returned (an entry record appended)
\* gives back the kmBy of both users and the lastOdometer of before the add.
C6_UndoRestoresPreCallValues ==
  \A c \in Clients : \A reading \in ReadingInputs :
    (page = "db" /\ LoggedIn(c) /\ clock < MaxIds) =>
      LET added == AddMileageEntry(sessionUser[c], reading, Ledger(c), db, clock + 1, "none")
          undone == UndoLastEntry(added.state[1], added.db, "none")
      IN (added.ok /\ Last(added.state[1].history).type = "entry") =>
           /\ undone.ok
           /\ \A u \in DbUsers : undone.state[1].kmBy[u] = Ledger(c).kmBy[u]
           /\ undone.state[1].lastOdometer = Ledger(c).lastOdometer

\* C7: history never holds more than one init record.
C7_AtMostOneInit ==
  \A c \in Clients :
    state[c] # NoState =>
      Cardinality({i \in 1..Len(Ledger(c).history) : Ledger(c).history[i].type = "init"}) <= 1

\* C8: when addMileageEntry, undoLastEntry or resetAndGetMessage fails, the
\* store is as it was before the call.
C8_FailedOperationLeavesStore ==
  [][\A c \in Clients :
       ((AddMileage(c) \/ UndoLast(c) \/ DoResetAndShare(c)) /\ result'[c].outcome = "error")
       => db' = db]_vars

\* the reset records a step adds to a history
NewResets(before, after) ==
  {after[i] : i \in {j \in 1..Len(after) :
      after[j].type = "reset" /\ \A k \in 1..Len(before) : before[k].id # after[j].id}}

\* C9: a reset returns kmBy 0 for both identities of the deployment, and the
\* reset record it appends carries the pre-reset kmBy, their sum as totalKm, the
\* pre-reset price and totalAmount = totalKm * pricePerKm.
C9_ResetZeroesAndSnapshots ==
  [][\A c \in Clients :
       (DoResetAndShare(c) \/ LocalDoResetAndShare(c))
       => /\ Returned(c, "doResetAndShare")
             => /\ \A u \in DeploymentUsers : Ledger(c).kmBy'[u] = 0
                /\ NewResets(Ledger(c).history, Ledger(c).history') # {}
          /\ \A e \in NewResets(Ledger(c).history, Ledger(c).history')
                      \cup NewResets(db.entries, db.entries') :
               LET snap == IF e.type = "reset" /\ "snapshot" \in DOMAIN e
                           THEN e.snapshot[1] ELSE e.snapshot_data[1]
               IN /\ \A u \in DeploymentUsers : snap.kmBy[u] = Ledger(c).kmBy[u]
                  /\ snap.totalKm = KmTotal(Ledger(c))
                  /\ snap.pricePerKm = Ledger(c).pricePerKm
                  /\ snap.totalAmount = JsMul(snap.totalKm, snap.pricePerKm)]_vars

\* C10: undoLastEntry called on a history without an entry record fails with an
\* error; no handler of an undo changes the client's state or the store there.
C10_NothingToUndo ==
  [][\A c \in Clients :
       (/\ state[c] # NoState
        /\ NoEntryRecord(Ledger(c).history)
        /\ (UndoLast(c) \/ InvokeUndoLastEntry(c) \/ LocalUndoLast(c)))
       => /\ UNCHANGED <<db, state, storage>>
          /\ InvokeUndoLastEntry(c)
               => result'[c] = Outcome("undoLastEntry", "error", "No entry to undo")]_vars

\* undoLastEntry has just refused a history that holds only an init record
C10_Witness ==
  /\ result["c1"] = Outcome("undoLastEntry", "error", "No entry to undo")
  /\ Len(Ledger("c1").history) = 1
  /\ Ledger("c1").history[1].type = "init"

\* the position of the entry record closest to the end of a history, 0 if none
RECURSIVE LastEntryIndex(_)
LastEntryIndex(history) ==
  IF history = <<>> THEN 0
  ELSE IF Last(history).type = "entry" THEN Len(history)
  ELSE LastEntryIndex(SubSeq(history, 1, Len(history) - 1))

\* the init and reset records of a history, in its order
InitsAndResets(seq) == SelectSeq(seq, LAMBDA e : e.type # "entry")
IsPrefix(a, b) == Len(a) <= Len(b) /\ a = SubSeq(b, 1, Len(a))
AnUndo(c) == UndoLast(c) \/ InvokeUndoLastEntry(c) \/ LocalUndoLast(c)
AReload(c) == HandleLogin(c) \/ ReloadPage(c) \/ LocalReloadPage(c)

Recorded(c, reading) ==
  /\ \/ \E fail \in FailPoints : AddMileageWith(c, reading, fail)
     \/ LocalAddMileageWith(c, reading)
  /\ Returned(c, "addMileage")

\* C12: with lastOdometer null an accepted reading appends exactly one init
\* record carrying the reading and the submitter, sets startingOdometer and
\* lastOdometer to the reading and lastEnteredBy to the submitter, and leaves
\* kmBy and pricePerKm as they were; on the db page the stored aggregate says
\* the same and one init row was inserted.
C12_FirstReadingInitialises ==
  [][\A c \in Clients : \A reading \in ReadingInputs :
       (Recorded(c, reading) /\ Ledger(c).lastOdometer = Null)
       => LET old == Ledger(c)
              new == Ledger(c)'
              e == Last(new.history)
          IN /\ Len(new.history) = Len(old.history) + 1
             /\ SubSeq(new.history, 1, Len(old.history)) = old.history
             /\ e.type = "init" /\ e.reading = reading /\ e.enteredBy = sessionUser[c]
             /\ new.startingOdometer = reading
             /\ new.lastOdometer = reading
             /\ new.lastEnteredBy = sessionUser[c]
             /\ new.kmBy = old.kmBy
             /\ new.pricePerKm = old.pricePerKm
             /\ page = "db" =>
                  /\ db.row'[1].starting_odometer = reading
                  /\ db.row'[1].last_odometer = reading
                  /\ db.row'[1].last_entered_by = sessionUser[c]
                  /\ db.row'[1].amit_km = db.row[1].amit_km
                  /\ db.row'[1].john_km = db.row[1].john_km
                  /\ db.row'[1].price_per_km = db.row[1].price_per_km
                  /\ Len(db.entries') = Len(db.entries) + 1
                  /\ Last(db.entries').type = "init"
                  /\ Last(db.entries').entered_by = sessionUser[c]]_vars

\* the db page has just recorded a first reading of 1
C12_Witness ==
  /\ page = "db"
  /\ result["c1"] = Outcome("addMileage", "ok", "")
  /\ Len(Ledger("c1").history) = 1
  /\ Ledger("c1").history[1].type = "init"
  /\ Ledger("c1").history[1].reading = 1
  /\ Ledger("c1").lastOdometer = 1

\* C13: a reading equal to lastOdometer is accepted (the store answering every
\* call); it appends one entry record with deltaKm 0 attributed to the other
\* identity of the pair, leaves kmBy as it was and sets lastOdometer to the
\* reading and lastEnteredBy to the submitter.
C13_ZeroDeltaRecorded ==
  [][\A c \in Clients : \A reading \in ReadingInputs :
       (/\ state[c] # NoState
        /\ Ledger(c).lastOdometer = reading
        /\ AddMileageWith(c, reading, "none") \/ LocalAddMileageWith(c, reading))
       => LET old == Ledger(c)
              new == Ledger(c)'
              e == Last(new.history)
          IN /\ Returned(c, "addMileage")
             /\ Len(new.history) = Len(old.history) + 1
             /\ SubSeq(new.history, 1, Len(old.history)) = old.history
             /\ e.type = "entry" /\ e.deltaKm = 0
             /\ e.enteredBy = sessionUser[c]
             /\ e.attributedTo = OtherIdentity(sessionUser[c])
             /\ new.kmBy = old.kmBy
             /\ new.lastOdometer = reading
             /\ new.lastEnteredBy = sessionUser[c]]_vars

\* settings have been saved by client c with the two converted field values
\* (the store having answered)
SettingsSaved(c, newPricePerKm, newStartingOdo) ==
  /\ Returned(c, "saveSettings")
  /\ \/ SaveSettingsWith(c, newPricePerKm, newStartingOdo, "none")
     \/ LocalSaveSettingsWith(c, newPricePerKm, newStartingOdo)

\* C14: saved settings always carry the supplied pricePerKm; startingOdometer
\* becomes the supplied value when lastOdometer is null and stays as it was, in
\* the client's state and in the store, when lastOdometer is set.
C14_StartingOdometerGated ==
  [][\A c \in Clients :
       \A newPricePerKm \in AnyPriceInputs : \A newStartingOdo \in AnyOdoInputs :
         SettingsSaved(c, newPricePerKm, newStartingOdo)
         => /\ Ledger(c).pricePerKm' = newPricePerKm
            /\ Ledger(c).lastOdometer = Null
                 => Ledger(c).startingOdometer' = newStartingOdo
            /\ Ledger(c).lastOdometer # Null
                 => /\ Ledger(c).startingOdometer' = Ledger(c).startingOdometer
                    /\ page = "db" =>
                         db.row'[1].starting_odometer = db.row[1].starting_odometer]_vars

\* settings were saved on the db page after a reading of 0: the new price is
\* there and the starting mileage is still the first reading
C14_Witness ==
  /\ page = "db"
  /\ result["c1"] = Outcome("saveSettings", "ok", "")
  /\ Ledger("c1").lastOdometer = 0
  /\ Ledger("c1").startingOdometer = 0
  /\ Ledger("c1").pricePerKm = 20000
  /\ db.row[1].price_per_km = 20000

PositiveNumber(x) == IsNumber(x) /\ x > 0
NonNegativeNumber(x) == IsNumber(x) /\ x >= 0

\* C15: saving settings with a pricePerKm that is not > 0 or a startingOdometer
\* that is not >= 0 fails and changes neither the client's state nor what is
\* persisted; pricePerKm is a positive number after every step.
C15_InvalidSettingsRejected ==
  [][\A c \in Clients :
       /\ \A newPricePerKm \in AnyPriceInputs : \A newStartingOdo \in AnyOdoInputs :
            (/\ ~(PositiveNumber(newPricePerKm) /\ NonNegativeNumber(newStartingOdo))
             /\ \/ \E fail \in {"none", "saveAppState"} :
                     SaveSettingsWith(c, newPricePerKm, newStartingOdo, fail)
                \/ LocalSaveSettingsWith(c, newPricePerKm, newStartingOdo))
            => /\ result'[c].outcome = "error"
               /\ UNCHANGED <<db, state, storage>>
       /\ state'[c] # NoState => PositiveNumber(Ledger(c).pricePerKm')]_vars

AReset(c) == DoResetAndShare(c) \/ LocalDoResetAndShare(c)
AppendsOne(before, after, type) ==
  /\ Len(after) = Len(before) + 1
  /\ SubSeq(after, 1, Len(before)) = before
  /\ Last(after).type = type

\* C16: a reset that returns leaves lastOdometer, lastEnteredBy, pricePerKm and
\* version as they were and appends exactly one reset record after the
\* unaltered earlier records; in the store a reset never touches last_odometer,
\* last_entered_by, price_per_km or version and inserts at most one row, a
\* reset row, after the others.
C16_ResetFrame ==
  [][\A c \in Clients :
       AReset(c)
       => /\ Returned(c, "doResetAndShare")
               => /\ Ledger(c).lastOdometer' = Ledger(c).lastOdometer
                  /\ Ledger(c).lastEnteredBy' = Ledger(c).lastEnteredBy
                  /\ Ledger(c).pricePerKm' = Ledger(c).pricePerKm
                  /\ Ledger(c).version' = Ledger(c).version
                  /\ AppendsOne(Ledger(c).history, Ledger(c).history', "reset")
          /\ db.row'[1].last_odometer = db.row[1].last_odometer
          /\ db.row'[1].last_entered_by = db.row[1].last_entered_by
          /\ db.row'[1].price_per_km = db.row[1].price_per_km
          /\ db.row'[1].version = db.row[1].version
          /\ db.entries' = db.entries \/ AppendsOne(db.entries, db.entries', "reset")]_vars

\* a reset has just returned on a ledger whose last reading is set
C16_Witness ==
  /\ result["c1"] = Outcome("doResetAndShare", "ok", "")
  /\ Ledger("c1").lastOdometer # Null
  /\ Len(Ledger("c1").history) = 2
  /\ Ledger("c1").history[2].type = "reset"
  /\ Ledger("c1").lastEnteredBy = sessionUser["c1"]

\* a reset of the db page has just inserted its row
C16_StoreWitness ==
  /\ page = "db"
  /\ result["c1"].op = "doResetAndShare"
  /\ db.entries # <<>>
  /\ Last(db.entries).type = "reset"
  /\ db.row[1].last_odometer # Null

\* every reset record of `before` that is still in `after` has the same snapshot
SnapshotsKept(before, after) ==
  \A i \in 1..Len(before) : \A j \in 1..Len(after) :
    (before[i].type = "reset" /\ after[j].id = before[i].id)
    => after[j].snapshot = before[i].snapshot

KmByValuesNonNegative(kmBy) ==
  \A k \in KmKeys : kmBy[k] # Undefined => NonNegativeNumber(kmBy[k])

C18_UsersKmByNonNegative ==
  /\ \A c \in Clients :
       /\ state[c] # NoState
            => \A u \in DeploymentUsers : NonNegativeNumber(Ledger(c).kmBy[u])
       /\ storage[c].ledger # NoState
            => \A u \in DeploymentUsers : NonNegativeNumber(storage[c].ledger[1].kmBy[u])
  /\ NonNegativeNumber(db.row[1].amit_km)
  /\ NonNegativeNumber(db.row[1].john_km)

\* null and undefined both say that a value is absent
AbsentNumber(x) == x \in {Null, Undefined}
AbsentName(x) == x \in {"null", "undefined"}
SameNumber(a, b) == a = b \/ (AbsentNumber(a) /\ AbsentNumber(b))
SameName(a, b) == a = b \/ (AbsentName(a) /\ AbsentName(b))
SameRecord(a, b) ==
  /\ a.id = b.id /\ a.type = b.type /\ a.timestamp = b.timestamp
  /\ SameNumber(a.reading, b.reading)
  /\ SameNumber(a.deltaKm, b.deltaKm)
  /\ SameName(a.attributedTo, b.attributedTo)
  /\ SameName(a.enteredBy, b.enteredBy)
  /\ SameName(a.note, b.note)
  /\ a.snapshot = b.snapshot
SameLedger(a, b) ==
  /\ a.pricePerKm = b.pricePerKm
  /\ a.startingOdometer = b.startingOdometer
  /\ SameNumber(a.lastOdometer, b.lastOdometer)
  /\ SameName(a.lastEnteredBy, b.lastEnteredBy)
  /\ \A u \in DbUsers : a.kmBy[u] = b.kmBy[u]
  /\ Len(a.history) = Len(b.history)
  /\ \A i \in 1..Len(a.history) : SameRecord(a.history[i], b.history[i])

\* every operation so far has succeeded: no store call failed, and no reset was
\* tried on the db page (its save is always refused, after its row is inserted)
AllSucceeded ==
  /\ failures = 0
  /\ \A i \in 1..Len(db.entries) : db.entries[i].type # "reset"

\* C19: once an operation has returned a state to the db page's client, every
\* operation before it having succeeded, loadAppState returns that state: the
\* same pricePerKm, startingOdometer, lastOdometer, lastEnteredBy, kmBy of both
\* users and history records in the same order.
C19_LoadReturnsLastState ==
  \A c \in Clients :
    (/\ page = "db"
     /\ state[c] # NoState
     /\ AllSucceeded
     /\ \A d \in Clients \ {c} : result[d].op = "none"
     /\ result[c].outcome = "ok"
     /\ result[c].op \in {"addMileage", "undoLast", "saveSettings", "doResetAndShare"})
    => /\ GetAppState(db).ok
       /\ SameLedger(GetAppState(db).state[1], Ledger(c))

\* the default ledger: version 1, 0.5 per km, no reading yet, nobody owes a
\* km, no record
IsDefaultLedger(s) ==
  /\ s.version = 1 /\ s.pricePerKm = DefaultPricePerKm
  /\ s.lastOdometer = Null
  /\ \A u \in DbUsers : s.kmBy[u] = 0
  /\ s.history = <<>>

\* getAppState throws when the state table holds no row
C20_NoRowThrows == db.row = <<>> => ~GetAppState(db).ok

\* C20: getAppState throws when the state table holds no row, and on the store
\* holding the state row and columns created by the schema script it returns
\* the default ledger (version 1, pricePerKm 0.5, lastOdometer null, kmBy 0 for
\* both users, empty history).
C20_GetAppStateOnFreshStore ==
  /\ db.row = <<>> => ~GetAppState(db).ok
  /\ db = ScriptDb => /\ GetAppState(db).ok
                      /\ IsDefaultLedger(GetAppState(db).state[1])

\* the same seen by the user: logging in on the schema script's store, the
\* store answering, shows the default ledger
C20_LoginShowsDefaultLedger ==
  [][\A c \in Clients, code \in DbCodes :
       (HandleLoginWith(c, code, "none") /\ db = ScriptDb)
       => state'[c] # NoState /\ IsDefaultLedger(state'[c][1])]_vars

\* on the store with the column database.ts names, the default ledger is returned
C20_MigratedStoreLoads ==
  db = InitialDb => GetAppState(db).ok /\ IsDefaultLedger(GetAppState(db).state[1])

\* the operations of the db page that end with updateAppState(s) and hand s to
\* the client
SavingOps == {"addMileage", "undoLast", "saveSettings", "doResetAndShare"}
SavedStateOf(c) ==
  /\ page = "db"
  /\ state[c] # NoState
  /\ result[c].outcome = "ok"
  /\ result[c].op \in SavingOps

SameAggregate(a, b) ==
  /\ a.pricePerKm = b.pricePerKm
  /\ a.startingOdometer = b.startingOdometer
  /\ SameNumber(a.lastOdometer, b.lastOdometer)
  /\ SameName(a.lastEnteredBy, b.lastEnteredBy)
  /\ \A u \in DbUsers : a.kmBy[u] = b.kmBy[u]

\* updateAppState(s) called again on the store it has just written changes nothing
C21_SaveIsIdempotent ==
  \A c \in Clients :
    SavedStateOf(c) =>
      LET once == UpdateAppState(db, Ledger(c))
      IN once.ok /\ once.db = db /\ UpdateAppState(once.db, Ledger(c)).db = once.db

\* C21: after a successful updateAppState(s), s a state an operation returned,
\* getAppState returns the pricePerKm, startingOdometer, lastOdometer,
\* lastEnteredBy and kmBy of both users of s; and a second updateAppState(s)
\* leaves the store as the first one left it.
C21_SavedStateReadBack ==
  \A c \in Clients :
    SavedStateOf(c) =>
      /\ GetAppState(db).ok
      /\ SameAggregate(GetAppState(db).state[1], Ledger(c))
      /\ UpdateAppState(db, Ledger(c)).db = db

HasId(rows, id) == \E i \in 1..Len(rows) : rows[i].id = id
RowsWithId(rows, id) == SelectSeq(rows, LAMBDA r : r.id = id)

\* C22: addHistoryEntry called with an id the persisted history already holds
\* succeeds without error and leaves the persisted history unchanged: still one
\* record with that id, with the contents written first.
C22_DuplicateIdIsNoOp ==
  [][\A c \in Clients, entry \in EntryInputs :
       (InvokeAddEntry(c, entry) /\ HasId(db.entries, entry.id))
       => /\ result'[c] = Outcome("addEntry", "ok", "")
          /\ db'.entries = db.entries
          /\ Len(RowsWithId(db'.entries, entry.id)) = 1]_vars

\* addEntry has been called with the id of the init record the page's client
\* wrote (a caller of addEntry hands over entry records only): the table holds
\* that init record and nothing else
C22_Witness ==
  /\ result["c2"] = Outcome("addEntry", "ok", "")
  /\ Len(db.entries) = 1
  /\ db.entries[1].type = "init"

\* a client that typed one of the two valid codes (or whose session was
\* restored from one it typed) holds a session
HoldsSession(c) == sessionUser[c] \in DbUsers \/ storage[c].session \in DbUsers

\* C23: the persisted ledger (the state row, the history rows) changes only in
\* a step of the page taken by a client that logged in with one of the two valid
\* codes; a caller without a valid code changes nothing.
C23_OnlyLoggedInClientsWrite ==
  [][db' # db => \E c \in Clients : HoldsSession(c) /\ ClientStep(c)]_vars

\* the page itself lets nobody without a session write
C23_PageWritesNeedSession ==
  [][\A c \in Clients : (ClientStep(c) /\ db' # db) => HoldsSession(c)]_vars

PersistedLastOdometer(d) == d.row[1].last_odometer

\* C24: with two clients each working on its own loaded copy, an accepted
\* addMileageEntry never lowers the persisted lastOdometer: a reading below the
\* persisted lastOdometer is not accepted.
C24_PersistedOdometerNeverDecreases ==
  [][\A c \in Clients, reading \in ReadingInputs :
       (/\ AddMileageWith(c, reading, "none")
        /\ result'[c] = Outcome("addMileage", "ok", "")
        /\ IsNumber(PersistedLastOdometer(db)))
       => /\ reading >= PersistedLastOdometer(db)
          /\ PersistedLastOdometer(db') >= PersistedLastOdometer(db)]_vars

\* C25: with two clients each working on its own loaded copy and their
\* operations interleaving, no update is lost: once the operations have
\* completed, the persisted kmBy total is the sum of deltaKm of the persisted
\* entry records since the last persisted reset.
C25_NoLostUpdate ==
  (page = "db" /\ GetAppState(db).ok) =>
    LET persisted == GetAppState(db).state[1]
    IN JsAdd(persisted.kmBy["Amit"], persisted.kmBy["John"])
         = DeltaSinceReset(persisted.history)

Rejected(c) == result'[c].outcome = "error" /\ db' = db /\ state' = state /\ storage' = storage

\* the handlers of both pages reject a negative or non-finite reading
C26_PageRejectsInvalidReading ==
  [][\A c \in Clients, reading \in AnyReadingInputs :
       (InvalidReading(reading)
        /\ (AddMileageWith(c, reading, "none") \/ LocalAddMileageWith(c, reading)))
       => Rejected(c)]_vars

\* C26: addMileageEntry rejects a negative or non-finite reading with an
\* error, creating no record and leaving state and store unchanged, whether
\* lastOdometer is null or set.
C26_InvalidReadingRejected ==
  [][\A c \in Clients, user \in DbUsers, reading \in AnyReadingInputs :
       (InvalidReading(reading) /\ InvokeAddMileageEntry(c, user, reading))
       => Rejected(c)]_vars

\* hence lastOdometer, when set, is never negative
C26_LastOdometerNotNegative ==
  /\ \A c \in Clients :
       (state[c] # NoState /\ ~Nullish(Ledger(c).lastOdometer))
       => NonNegativeNumber(Ledger(c).lastOdometer)
  /\ ~Nullish(db.row[1].last_odometer) => NonNegativeNumber(db.row[1].last_odometer)

\* the record getAppState returns once addHistoryEntry has written entry into
\* an empty history
ReadBack(entry) == GetAppState(AddHistoryEntry(InitialDb, entry).db).state[1].history[1]

SameContents(read, entry) ==
  /\ read.type = entry.type
  /\ SameNumber(read.reading, entry.reading)
  /\ SameNumber(read.deltaKm, entry.deltaKm)
  /\ SameName(read.attributedTo, entry.attributedTo)
  /\ SameName(read.enteredBy, entry.enteredBy)

\* C27: every record an operation has created, written by addHistoryEntry and
\* read back by getAppState, has the type, reading, deltaKm, attributedTo and
\* enteredBy it was written with, readings and deltas of 0 included.
C27_EntryReadBack ==
  \A c \in Clients :
    (page = "db" /\ state[c] # NoState /\ SavedStateOf(c)) =>
      \A i \in 1..Len(Ledger(c).history) :
        SameContents(ReadBack(Ledger(c).history[i]), Ledger(c).history[i])

\* the reading of the record nearest the end of history that carries one, Null
\* when no record does
RECURSIVE LastReading(_)
LastReading(history) ==
  IF history = <<>> THEN Null
  ELSE IF ~Nullish(Last(history).reading) THEN Last(history).reading
  ELSE LastReading(SubSeq(history, 1, Len(history) - 1))

\* C28: in every state a single client reaches, lastOdometer is the reading of
\* the record nearest the end of history that carries a reading, and is null
\* exactly when no record carries one.
C28_LastOdometerIsLastReading ==
  \A c \in Clients :
    state[c] # NoState =>
      SameNumber(Ledger(c).lastOdometer, LastReading(Ledger(c).history))

\* the same on the local page
C28_LocalPage ==
  \A c \in Clients :
    (state[c] # NoState /\ page = "local") =>
      SameNumber(Ledger(c).lastOdometer, LastReading(Ledger(c).history))

\* the km settled so far: the sum of totalKm over the reset records' snapshots
RECURSIVE SettledKm(_)
SettledKm(history) ==
  IF history = <<>> THEN 0
  ELSE JsAdd(IF Last(history).type = "reset" THEN Last(history).snapshot[1].totalKm ELSE 0,
             SettledKm(SubSeq(history, 1, Len(history) - 1)))

\* the reading of the init record (the first one, should there be several)
InitReading(history) ==
  LET inits == SelectSeq(history, LAMBDA e : e.type = "init")
  IN IF inits = <<>> THEN Null ELSE inits[1].reading

Conserved(s) ==
  IsNumber(s.lastOdometer) =>
    JsAdd(SettledKm(s.history), KmTotal(s)) = JsSub(s.lastOdometer, InitReading(s.history))

\* C29: in every reachable state with lastOdometer set, the km of all reset
\* snapshots plus the current kmBy total is lastOdometer minus the reading of
\* the init record: no km is settled twice or dropped.
C29_DistanceConserved ==
  \A c \in Clients : state[c] # NoState => Conserved(Ledger(c))

\* C30: whenever lastOdometer is set, startingOdometer <= lastOdometer, in
\* every state a sequence of readings, undos, resets and settings changes
\* reaches.
C30_StartingNotAboveLast ==
  \A c \in Clients :
    (state[c] # NoState /\ IsNumber(Ledger(c).lastOdometer))
    => JsLe(Ledger(c).startingOdometer, Ledger(c).lastOdometer)

CarriesReading(e) == ~Nullish(e.reading)
\* the reading of the nearest reading-carrying record before position i, Null
\* when there is none
PrecedingReading(history, i) == LastReading(SubSeq(history, 1, i - 1))

ReadingsInOrder(history) ==
  \A i, j \in 1..Len(history) :
    (i < j /\ CarriesReading(history[i]) /\ CarriesReading(history[j]))
    => JsLe(history[i].reading, history[j].reading)

DeltasMatchReadings(history) ==
  \A i \in 1..Len(history) :
    history[i].type = "entry" =>
      /\ NonNegativeNumber(history[i].deltaKm)
      /\ IsNumber(history[i].reading)
      /\ IsNumber(PrecedingReading(history, i))
      /\ history[i].deltaKm = history[i].reading - PrecedingReading(history, i)

\* C31: in every state a single client reaches, the readings of the records
\* that carry one are non-decreasing in history order, and every entry record
\* has a deltaKm >= 0 equal to its reading minus the reading of the preceding
\* reading-carrying record.
C31_HistoryReadingsConsistent ==
  \A c \in Clients :
    state[c] # NoState =>
      ReadingsInOrder(Ledger(c).history) /\ DeltasMatchReadings(Ledger(c).history)

\* the same on the local page
C31_LocalPage ==
  \A c \in Clients :
    (state[c] # NoState /\ page = "local") =>
      ReadingsInOrder(Ledger(c).history) /\ DeltasMatchReadings(Ledger(c).history)

CarriedForward(s) ==
  IF Nullish(s.lastOdometer) THEN s.startingOdometer ELSE s.lastOdometer

\* C32: a reset, the store answering, sets startingOdometer to lastOdometer
\* when lastOdometer is set and leaves it as it was when lastOdometer is null,
\* in the state handed to the client and, on the db page, in the state row.
C32_ResetCarriesOdometerForward ==
  [][\A c \in Clients :
       (DoResetAndShareWith(c, "none") \/ LocalDoResetAndShare(c))
       => /\ Returned(c, "doResetAndShare")
          /\ Ledger(c).startingOdometer' = CarriedForward(Ledger(c))
          /\ page = "db" => db.row'[1].starting_odometer = CarriedForward(Ledger(c))]_vars

\* the same for the resets that return
C32_ReturnedReset ==
  [][\A c \in Clients :
       (AReset(c) /\ Returned(c, "doResetAndShare"))
       => Ledger(c).startingOdometer' = CarriedForward(Ledger(c))]_vars

\* a reset has just moved the starting mileage from the init reading 0 up to
\* the last reading
C32_ReturnedResetSeen ==
  /\ result["c1"] = Outcome("doResetAndShare", "ok", "")
  /\ Last(Ledger("c1").history).type = "reset"
  /\ InitReading(Ledger("c1").history) = 0
  /\ Ledger("c1").lastOdometer = 1
  /\ Ledger("c1").startingOdometer = 1

\* a reset has just returned on a ledger without a reading: the starting
\* mileage is still the one the settings gave it
C32_ReturnedResetSeenNoReading ==
  /\ result["c1"] = Outcome("doResetAndShare", "ok", "")
  /\ Last(Ledger("c1").history).type = "reset"
  /\ Ledger("c1").lastOdometer = Null
  /\ Ledger("c1").startingOdometer = 1

\* C33: an undo that succeeds leaves lastEnteredBy, pricePerKm,
\* startingOdometer and version as they were, and the kmBy of everyone but the
\* removed record's attributedTo; on the db page the same holds of the state row.
C33_UndoFrame ==
  [][\A c \in Clients :
       (AnUndo(c) /\ result'[c].outcome = "ok")
       => LET removed == LastEntryOf(Ledger(c).history)[1]
          IN /\ Ledger(c).lastEnteredBy' = Ledger(c).lastEnteredBy
             /\ Ledger(c).pricePerKm' = Ledger(c).pricePerKm
             /\ Ledger(c).startingOdometer' = Ledger(c).startingOdometer
             /\ Ledger(c).version' = Ledger(c).version
             /\ \A u \in KmKeys \ {removed.attributedTo} :
                  Ledger(c).kmBy[u]' = Ledger(c).kmBy[u]
             /\ page = "db" =>
                  /\ db.row'[1].last_entered_by = db.row[1].last_entered_by
                  /\ db.row'[1].price_per_km = db.row[1].price_per_km
                  /\ db.row'[1].starting_odometer = db.row[1].starting_odometer
                  /\ db.row'[1].version = db.row[1].version
                  /\ \A u \in DbUsers \ {removed.attributedTo} :
                       GetAppState(db').state[1].kmBy[u] = GetAppState(db).state[1].kmBy[u]]_vars

\* the db page has just undone an entry: the record left was entered by one
\* user, lastEnteredBy is still the other one, who entered the removed record
C33_Witness ==
  /\ page = "db"
  /\ result["c1"] = Outcome("undoLast", "ok", "")
  /\ Len(Ledger("c1").history) = 1
  /\ Ledger("c1").history[1].enteredBy # Ledger("c1").lastEnteredBy
  /\ Ledger("c1").lastEnteredBy \in DbUsers

\* a save of the settings sheet by client c, the store answering
ASettingsSave(c) ==
  \E newPricePerKm \in AnyPriceInputs, newStartingOdo \in AnyOdoInputs :
    \/ SaveSettingsWith(c, newPricePerKm, newStartingOdo, "none")
    \/ LocalSaveSettingsWith(c, newPricePerKm, newStartingOdo)

\* C34: a settings save that succeeds adds no history record and leaves
\* history, kmBy, lastOdometer, lastEnteredBy and version as they were; the
\* persisted history is not written.
C34_SettingsFrame ==
  [][\A c \in Clients :
       (Returned(c, "saveSettings") /\ ASettingsSave(c))
       => /\ Ledger(c).history' = Ledger(c).history
          /\ Ledger(c).kmBy' = Ledger(c).kmBy
          /\ Ledger(c).lastOdometer' = Ledger(c).lastOdometer
          /\ Ledger(c).lastEnteredBy' = Ledger(c).lastEnteredBy
          /\ Ledger(c).version' = Ledger(c).version
          /\ db.entries' = db.entries]_vars

\* the db page has saved a new price over a ledger that holds two records
C34_Witness ==
  /\ page = "db"
  /\ result["c1"] = Outcome("saveSettings", "ok", "")
  /\ Ledger("c1").pricePerKm = 20000
  /\ Len(Ledger("c1").history) = 2
  /\ Len(db.entries) = 2
  /\ Ledger("c1").version = 1

IsEntry(e) == e.type = "entry"
EntryRecords(history) == SelectSeq(history, IsEntry)

\* the records of before whose id after no longer holds
RemovedBetween(before, after) ==
  {before[i] : i \in {j \in 1..Len(before) :
                        \A k \in 1..Len(after) : after[k].id # before[j].id}}

\* what a second undo, called straight after the step, does to client c's ledger
SecondUndo(c) ==
  IF page = "db"
  THEN LET r == UndoLastEntry(state'[c][1], db', "none")
       IN [ok |-> r.ok, history |-> IF r.ok THEN r.state[1].history ELSE <<>>]
  ELSE LET prev == state'[c][1]
       IN [ok |-> TRUE,
           history |-> UndoLastUpdater(prev, LastEntryOf(prev.history)[1]).history]

\* C35: when an undo succeeds and the history still holds an entry-type record,
\* the undo that follows succeeds too; the first removed the entry-type record
\* nearest the end, the second removes the one before it, a different record,
\* and the record removed by the first is not back afterwards.
C35_TwoUndosLastInFirstOut ==
  [][\A c \in Clients :
       (AnUndo(c) /\ result'[c].outcome = "ok"
          /\ EntryRecords(Ledger(c).history') # <<>>)
       => LET h == Ledger(c).history
              h1 == Ledger(c).history'
              entries == EntryRecords(h)
              n == Len(entries)
              again == SecondUndo(c)
          IN /\ n >= 2
             /\ RemovedBetween(h, h1) = {entries[n]}
             /\ again.ok
             /\ RemovedBetween(h1, again.history) = {entries[n - 1]}
             /\ entries[n - 1].id # entries[n].id
             /\ RemovedBetween(h, again.history) = {entries[n], entries[n - 1]}
             /\ \A i \in 1..Len(again.history) :
                  /\ again.history[i].id # entries[n].id
                  /\ \E j \in 1..Len(h) : h[j] = again.history[i]]_vars

\* one undo has succeeded on the db page and an entry-type record is left for
\* the next: both recorded readings were entered in this behaviour
C35_Witness ==
  /\ page = "db"
  /\ result["c1"] = Outcome("undoLast", "ok", "")
  /\ Len(EntryRecords(Ledger("c1").history)) = 1
  /\ clock = 2
  /\ failures = 0

\* the readings the ledger s is specified to take: any valid one while
\* lastOdometer is unset, afterwards those not below it
AcceptableReadings(s) ==
  {r \in ReadingInputs : Nullish(s.lastOdometer) \/ JsLe(s.lastOdometer, r)}

ReadingsSucceed(c) ==
  \A r \in AcceptableReadings(Ledger(c)) :
    AddMileageEntry(sessionUser[c], r, Ledger(c), db, clock + 1, "none").ok

SettingsSucceed(c) ==
  \A p \in PriceInputs : \A o \in OdoInputs :
    UpdateSettings(p, o, Ledger(c), db, "none").ok

ResetSucceeds(c) ==
  LET r == ResetAndGetMessage(Ledger(c), db, clock + 1, "none")
  IN /\ r.ok
     /\ ~Nullish(Ledger(c).lastOdometer) => ~Nullish(r.state[1].lastOdometer)

\* C36: in every state of a logged-in client of the db page, the store
\* answering, a reading not below lastOdometer, a reset and a settings update
\* with valid inputs each return, and the reset keeps a set lastOdometer set.
C36_NoTerminalState ==
  \A c \in Clients :
    (page = "db" /\ LoggedIn(c))
    => ReadingsSucceed(c) /\ SettingsSucceed(c) /\ ResetSucceeds(c)

\* readings and settings alone are never refused on the db page
C36_ReadingsAndSettings ==
  \A c \in Clients :
    (page = "db" /\ LoggedIn(c)) => ReadingsSucceed(c) /\ SettingsSucceed(c)

\* the local page: the three handlers go through in every state
C36_LocalPage ==
  \A c \in Clients :
    (page = "local" /\ sessionUser[c] # "null")
    => /\ \A r \in AcceptableReadings(Ledger(c)) :
            ~(~Nullish(Ledger(c).lastOdometer)
                /\ LocalDecreased(JsSub(r, Ledger(c).lastOdometer)))
       /\ ~Nullish(Ledger(c).lastOdometer)
            => ~Nullish(ResetUpdater(Ledger(c), clock + 1, clock + 1).lastOdometer)
       /\ \A p \in PriceInputs : \A o \in OdoInputs : ~JsLe(p, 0) /\ ~JsLt(o, 0)

AStart(c) ==
  \/ StartAddMileage(c) \/ StartUndoLast(c)
  \/ StartDoResetAndShare(c) \/ StartSaveSettings(c)

C37_NoStartWhileRunning ==
  [][\A c \in Clients : AStart(c) => inFlight[c] = <<>>]_vars

Settled(c) == Len(inFlight'[c]) < Len(inFlight[c])
Threw(c) == result'[c].outcome = "error"

\* every call in flight is followed by a state with none in flight and
\* actionLoading false
EndsNotLoading ==
  \A c \in Clients :
    inFlight[c] # <<>> ~> (inFlight[c] = <<>> /\ ~actionLoading[c])

\* C38: every action a client of the db page starts ends with actionLoading
\* false, whether the server action returns or throws; when it throws, the
\* client then holds the ledger state it held when the action was started.
C38_EndsWithStartState ==
  /\ EndsNotLoading
  /\ [][\A c \in Clients :
         (Settled(c) /\ Threw(c)) => state'[c] = Some(inFlight[c][1].currentState)]_vars

\* every action started ends with actionLoading false, whether the server
\* action returns or throws; when it throws, the handler leaves the client's
\* ledger state as it is at that moment
C38_EndsWithStateUntouched ==
  /\ EndsNotLoading
  /\ [][\A c \in Clients : (Settled(c) /\ Threw(c)) => state'[c] = state[c]]_vars

\* a reading below the last one, refused by the server after the user logged
\* out, leaves the client without the ledger state it sent
C38_RefusedAfterLogout ==
  [][(Settled("c1") /\ Threw("c1") /\ inFlight["c1"][1].op = "addMileage")
       => state'["c1"] = Some(inFlight["c1"][1].currentState)]_vars

\* a server action has thrown after the user logged out: nothing is in flight,
\* actionLoading is false, and the client holds no ledger state
C38_ThrownAfterLogout ==
  /\ result["c1"].op \in {"addMileage", "undoLast", "doResetAndShare", "saveSettings"}
  /\ result["c1"].outcome = "error"
  /\ inFlight["c1"] = <<>>
  /\ ~actionLoading["c1"]
  /\ sessionUser["c1"] = "null"
  /\ state["c1"] = NoState

\* the settlement message of ledger s for the users first and second: header,
\* price, totals heading, one line per user, total, the Odometer line when
\* lastOdometer is set, closing line
SettlementLines(s, first, second, ts) ==
  LET line(kind, km, amount) == [kind |-> kind, km |-> km, amount |-> amount]
      totalKm == JsAdd(s.kmBy[first], s.kmBy[second])
      odometer == IF s.lastOdometer = Null THEN <<>>
                  ELSE <<line("Odometer", s.lastOdometer, Undefined)>>
  IN <<line("Fuel split reset", ts, Undefined),
       line("Price per km", Undefined, s.pricePerKm),
       line("Totals since last reset", Undefined, Undefined),
       line("first user", s.kmBy[first], JsMul(s.kmBy[first], s.pricePerKm)),
       line("second user", s.kmBy[second], JsMul(s.kmBy[second], s.pricePerKm)),
       line("Total", totalKm, JsMul(totalKm, s.pricePerKm))>>
     \o odometer
     \o <<line("Please settle accordingly.", Undefined, Undefined)>>

\* C39: resetAndGetMessage returns the settlement message of the state it is
\* given: the lines in their fixed order, built from the pre-reset price, each
\* user's km and amount, the totals and lastOdometer, with the Odometer line
\* exactly when lastOdometer is set.
C39_SettlementMessage ==
  \A c \in Clients :
    (page = "db" /\ LoggedIn(c))
    => LET r == ResetAndGetMessage(Ledger(c), db, clock + 1, "none")
       IN /\ r.ok
          /\ r.message = SettlementLines(Ledger(c), "Amit", "John", clock + 1)

\* the local page's message is the settlement message of its state
C39_LocalPage ==
  \A c \in Clients :
    (page = "local" /\ state[c] # NoState)
    => LocalMessage(Ledger(c), clock + 1)
         = SettlementLines(Ledger(c), "Amit", "Ori", clock + 1)

\* the local page holds a ledger whose lastOdometer is 0: the message has its
\* Odometer line, eight lines in all
C39_LocalOdometerZeroSeen ==
  /\ page = "local"
  /\ Ledger("c1").lastOdometer = 0
  /\ Len(LocalMessage(Ledger("c1"), clock + 1)) = 8
  /\ LocalMessage(Ledger("c1"), clock + 1)[7].kind = "Odometer"

\* the local page holds a ledger without a reading: seven lines, no Odometer line
C39_LocalNoOdometerSeen ==
  /\ page = "local"
  /\ Ledger("c1").lastOdometer = Null
  /\ Len(LocalMessage(Ledger("c1"), clock + 1)) = 7

====
